---------------------------- MODULE Spec2Model ----------------------------
(***************************************************************************)
(* A model of the CV parser service (src/index.js): the field validators,  *)
(* the categorical matcher, the record validator, the inference engine,    *)
(* the interval merger, the functional-expertise merge and the job handler *)
(* of POST /api/v1/parse.                                                  *)
(*                                                                         *)
(* JavaScript strings are TLA+ strings, taken apart with Len, SubSeq and   *)
(* \o.  Every other JavaScript value is a record tagged by its typeof.     *)
(* Inputs are ASCII; the two non-ASCII keys of the synonym table and of    *)
(* the master keyword list can match no ASCII input and are left out.      *)
(***************************************************************************)
EXTENDS Integers, Sequences, FiniteSets, TLC

VARIABLES
    \* field validators (src/index.js 470-525)
    rawValue,          \* the value handed to a validator
    fieldResult,       \* [fn, value]: the validator called and what it returned
    \* record validator and inference engine (src/index.js 661-996, 1655-1671)
    rawRecord,         \* the record as parsed from the Pass 1 response
    extractedData,     \* parseCV's extractedData, replaced by each stage
    corrections,       \* the correction log of the last validateAndCorrectData
    firstCorrected,    \* the corrected record of the first validation
    inferences,        \* the inference log of applyInferenceLogic
    stage,             \* "raw", "validated", "revalidated", "inferred"; "idle"
    \* interval merger (src/index.js 821-893)
    experiences,       \* the list handed to calculateTotalWorkMonths
    now,               \* the value of new Date() during the call
    totalMonths,       \* its result, NoResult before the call
    \* functional-expertise merge (src/index.js 1007-1043)
    userExpertise,
    parserExpertise,
    mergedExpertise,   \* NoResult before the call
    \* the job handler (src/index.js 1745-1930)
    pc,                \* the handler's position
    docType,           \* what storagePath ends with: "pdf", "docx", "other"
    jobRow,            \* the job's row of cv_parsing_jobs
    thrown,            \* the error the handler's try block threw, or null
    pass1Calls,        \* first-pass extraction calls made so far
    preparePc,         \* prepareFileForParsing's position
    picturePc,         \* extractProfilePicture's position
    profilePicturePath,\* what the picture branch returned, NoResult before
    pictureUploads,    \* objects put into the profile-pictures bucket
    pictureFailure,    \* the step of the picture branch that failed, or "none"
    jobData,           \* the handler's extractedData, NoResult before parseCV returns
    profileWrites,     \* the tables of the profile updates applied, in order
    pass2Calls,        \* second-pass extraction calls made so far
    profileUpdateData, \* the handler's profileUpdateData, NoResult before it is built
    userProfile,       \* the profile's row of user_profiles
    talentProfile,     \* the profile's row of talent_profiles
    userEdits          \* changes the user has made to the row during the job

validatorVars == <<rawValue, fieldResult>>
recordVars == <<rawRecord, extractedData, corrections, firstCorrected, inferences, stage, now>>
monthsVars == <<experiences, totalMonths>>
mergeVars == <<userExpertise, parserExpertise, mergedExpertise>>
profileVars == <<pass2Calls, profileUpdateData, userProfile, talentProfile, userEdits>>
jobVars == <<pc, docType, jobRow, thrown, pass1Calls, preparePc, picturePc,
             profilePicturePath, pictureUploads, pictureFailure, jobData,
             profileWrites, profileVars>>
vars == <<rawValue, fieldResult, rawRecord, extractedData, corrections,
          firstCorrected, inferences, stage, experiences, now, totalMonths, userExpertise,
          parserExpertise, mergedExpertise, pc, docType, jobRow, thrown,
          pass1Calls, preparePc, picturePc, profilePicturePath, pictureUploads,
          pictureFailure, jobData, profileWrites, pass2Calls, profileUpdateData,
          userProfile, talentProfile, userEdits>>

-----------------------------------------------------------------------------
(* JavaScript values *)

Null == [t |-> "null"]
Undefined == [t |-> "undefined"]
Str(s) == [t |-> "string", s |-> s]
Num(n) == [t |-> "number", n |-> n]
Bool(b) == [t |-> "boolean", b |-> b]
Obj == [t |-> "object"]
\* A TypeError raised by a method call on a value that has no such method.
Throw == [t |-> "throw"]
NoResult == [t |-> "none"]

IsStr(v) == v.t = "string"

\* ToBoolean: what `!v` and `if (v)` test.
Truthy(v) ==
    CASE v.t = "null" -> FALSE
      [] v.t = "undefined" -> FALSE
      [] v.t = "string" -> v.s # ""
      [] v.t = "number" -> v.n # 0
      [] v.t = "boolean" -> v.b
      [] OTHER -> TRUE

-----------------------------------------------------------------------------
(* String primitives *)

CharAt(s, i) == SubSeq(s, i, i)

UpperChars == "ABCDEFGHIJKLMNOPQRSTUVWXYZ"
LowerChars == "abcdefghijklmnopqrstuvwxyz"
Digits == {"0", "1", "2", "3", "4", "5", "6", "7", "8", "9"}
Whitespace == {" ", "\t", "\n"}

\* The lowercase letter of each uppercase letter.
LowerOf ==
    [c \in {CharAt(UpperChars, i) : i \in 1..26} |->
        CharAt(LowerChars, CHOOSE i \in 1..26 : CharAt(UpperChars, i) = c)]

LowerChar(c) == IF c \in DOMAIN LowerOf THEN LowerOf[c] ELSE c

RECURSIVE LowerFrom(_, _)
LowerFrom(s, i) ==
    IF i > Len(s) THEN "" ELSE LowerChar(CharAt(s, i)) \o LowerFrom(s, i + 1)

\* String.prototype.toLowerCase
ToLowerCase(s) == LowerFrom(s, 1)

\* String.prototype.trim
Trim(s) ==
    LET keep == {i \in 1..Len(s) : CharAt(s, i) \notin Whitespace}
    IN  IF keep = {} THEN ""
        ELSE SubSeq(s, CHOOSE i \in keep : \A j \in keep : i <= j,
                       CHOOSE i \in keep : \A j \in keep : i >= j)

\* String.prototype.includes
Includes(s, sub) ==
    \E i \in 0..(Len(s) - Len(sub)) : SubSeq(s, i + 1, i + Len(sub)) = sub

\* String.prototype.startsWith
StartsWith(s, p) == Len(p) <= Len(s) /\ SubSeq(s, 1, Len(p)) = p

AllDigits(s, from, to) == \A i \in from..to : CharAt(s, i) \in Digits

\* String.prototype.padStart(2, '0') on a string of one or two characters
PadStart2(s) == IF Len(s) < 2 THEN "0" \o s ELSE s

-----------------------------------------------------------------------------
(* Field validators *)

validateAndCorrectUrl(url) ==
    IF ~Truthy(url) \/ ~IsStr(url) THEN Null
    ELSE LET trimmed == Trim(url.s)
         IN  IF trimmed = "" THEN Null
             ELSE IF ~StartsWith(trimmed, "http://") /\ ~StartsWith(trimmed, "https://")
                  THEN Str("https://" \o trimmed)
                  ELSE Str(trimmed)

validateAndCorrectCountryCode(code) ==
    IF ~Truthy(code) \/ ~IsStr(code) THEN Null
    ELSE LET trimmed == Trim(code.s)
         IN  IF trimmed = "" THEN Null
             ELSE IF ~StartsWith(trimmed, "+") THEN Str("+" \o trimmed)
                  ELSE Str(trimmed)

\* /^(\d{1,2})[\/\-](\d{4})$/ : the number of month digits, 0 for no match
MonthYearMatch(s) ==
    IF /\ Len(s) \in {6, 7}
       /\ AllDigits(s, 1, Len(s) - 5)
       /\ CharAt(s, Len(s) - 4) \in {"/", "-"}
       /\ AllDigits(s, Len(s) - 3, Len(s))
    THEN Len(s) - 5 ELSE 0

\* /^\d{4}-\d{2}$/
IsYearMonth(s) ==
    Len(s) = 7 /\ AllDigits(s, 1, 4) /\ CharAt(s, 5) = "-" /\ AllDigits(s, 6, 7)

\* /^\d{4}$/
IsYear(s) == Len(s) = 4 /\ AllDigits(s, 1, 4)

\* The month copied as written, without padStart(2, '0').
DateNoPad(dateString) ==
    IF ~Truthy(dateString) \/ ~IsStr(dateString) THEN Null
    ELSE LET trimmed == ToLowerCase(Trim(dateString.s))
             k == MonthYearMatch(trimmed)
         IN  IF trimmed = "" THEN Null
             ELSE IF trimmed = "present" THEN Str("present")
             ELSE IF k > 0
                  THEN Str(SubSeq(trimmed, k + 2, k + 5) \o "-" \o SubSeq(trimmed, 1, k))
             ELSE IF IsYearMonth(trimmed) THEN Str(trimmed)
             ELSE IF IsYear(trimmed) THEN Str(trimmed \o "-01")
             ELSE Str(trimmed)

validateAndCorrectDate(dateString) ==
    IF ~Truthy(dateString) \/ ~IsStr(dateString) THEN Null
    ELSE LET trimmed == ToLowerCase(Trim(dateString.s))
             k == MonthYearMatch(trimmed)
         IN  IF trimmed = "" THEN Null
             ELSE IF trimmed = "present" THEN Str("present")
             ELSE IF k > 0
                  THEN LET month == PadStart2(SubSeq(trimmed, 1, k))
                           year == SubSeq(trimmed, k + 2, k + 5)
                       IN  Str(year \o "-" \o month)
             ELSE IF IsYearMonth(trimmed) THEN Str(trimmed)
             ELSE IF IsYear(trimmed) THEN Str(trimmed \o "-01")
             ELSE Str(trimmed)

\* [^\s@]+ over s[from..to]
NoSpaceNoAt(s, from, to) ==
    /\ from <= to
    /\ \A i \in from..to : CharAt(s, i) \notin Whitespace /\ CharAt(s, i) # "@"

\* /^[^\s@]+@[^\s@]+\.[^\s@]+$/
EmailRegexTest(s) ==
    \E i \in 1..Len(s) : \E j \in 1..Len(s) :
        /\ CharAt(s, i) = "@"
        /\ CharAt(s, j) = "."
        /\ i < j
        /\ NoSpaceNoAt(s, 1, i - 1)
        /\ NoSpaceNoAt(s, i + 1, j - 1)
        /\ NoSpaceNoAt(s, j + 1, Len(s))

\* The typeof test of line 522 dropped: .trim() is called on any truthy value.
EmailNoTypeGuard(email) ==
    IF ~Truthy(email) THEN Null
    ELSE IF ~IsStr(email) THEN Throw
    ELSE IF EmailRegexTest(Trim(email.s)) THEN Str(Trim(email.s)) ELSE Null

validateEmail(email) ==
    IF ~Truthy(email) \/ ~IsStr(email) THEN Null
    ELSE IF EmailRegexTest(Trim(email.s)) THEN Str(Trim(email.s)) ELSE Null


-----------------------------------------------------------------------------
(* Inputs of the field validators *)

Years == {"0001", "1999", "2000", "2019", "2020", "2023", "2024", "9999"}
Months == 1..12
MonthDigits == <<"1", "2", "3", "4", "5", "6", "7", "8", "9", "10", "11", "12">>
\* The month written as the input may write it: "3" and "03", "11".
MonthForms(m) == IF m < 10 THEN {MonthDigits[m], "0" \o MonthDigits[m]} ELSE {MonthDigits[m]}
\* The month as YYYY-MM writes it.
TwoDigit(m) == IF m < 10 THEN "0" \o MonthDigits[m] ELSE MonthDigits[m]

MonthYearInputs ==
    {f \o sep \o y : f \in UNION {MonthForms(m) : m \in Months}, sep \in {"/", "-"}, y \in Years}
YearMonthInputs == {y \o "-" \o TwoDigit(m) : y \in Years, m \in Months}
PresentInputs == {"present", "Present", "PRESENT", "pReSeNt"}
UnrecognizedDates == {"Jan 2020", "2020-1", "1/20", "2020/01", "123/2020", "01.2020", "now"}
PaddedInputs == {" 3/2020", "2020-05 ", "\t2019\n", " Present "}
EmptyInputs == {"", " ", "  ", "\t", " \n "}
UrlInputs == {"example.com", "http://a.b", "https://a.b", " linkedin.com/in/x ", "HTTP://A.B"}
EmailInputs == {"a@b.co", " a@b.co ", "a@b", "a b@c.d", "@b.c", "a@b.", "a@@b.c", "a@b.c.d", "a@.b"}
CountryCodeInputs == {"41", "+41", " +1 ", " 44"}

StringInputs ==
    MonthYearInputs \cup YearMonthInputs \cup Years \cup PresentInputs
    \cup UnrecognizedDates \cup PaddedInputs \cup EmptyInputs \cup UrlInputs
    \cup EmailInputs \cup CountryCodeInputs

NonStringInputs ==
    {Null, Undefined, Num(0), Num(2023), Bool(TRUE), Bool(FALSE), Obj}

ValidatorInputs == {Str(s) : s \in StringInputs} \cup NonStringInputs

-----------------------------------------------------------------------------
(* The idle values of each part, for the specifications that leave it alone *)

ValidatorsIdle == rawValue = Null /\ fieldResult = NoResult
RecordIdle ==
    /\ rawRecord = Null /\ extractedData = Null /\ corrections = <<>>
    /\ firstCorrected = Null /\ inferences = <<>> /\ stage = "idle" /\ now = 0
MonthsIdle == experiences = <<>> /\ totalMonths = NoResult
MergeIdle == userExpertise = Null /\ parserExpertise = Null /\ mergedExpertise = NoResult
JobIdle ==
    /\ pc = "idle" /\ docType = "pdf" /\ jobRow = Null /\ thrown = Null
    /\ pass1Calls = 0 /\ preparePc = "idle" /\ picturePc = "idle"
    /\ profilePicturePath = NoResult /\ pictureUploads = 0
    /\ pictureFailure = "none"
    /\ jobData = NoResult /\ profileWrites = <<>>
    /\ pass2Calls = 0 /\ profileUpdateData = NoResult
    /\ userProfile = Null /\ talentProfile = Null /\ userEdits = 0

-----------------------------------------------------------------------------
(* Specification of the field validators: one call on one input *)

InitValidators ==
    /\ rawValue \in ValidatorInputs
    /\ fieldResult = NoResult
    /\ RecordIdle /\ MonthsIdle /\ MergeIdle /\ JobIdle

CallValidator(fn, value) ==
    /\ fieldResult = NoResult
    /\ fieldResult' = [fn |-> fn, value |-> value]
    /\ UNCHANGED <<rawValue, recordVars, monthsVars, mergeVars, jobVars>>

CallValidateAndCorrectUrl == CallValidator("url", validateAndCorrectUrl(rawValue))
CallValidateAndCorrectCountryCode ==
    CallValidator("country_code", validateAndCorrectCountryCode(rawValue))
CallValidateAndCorrectDate == CallValidator("date", validateAndCorrectDate(rawValue))
CallValidateEmail == CallValidator("email", validateEmail(rawValue))

NextValidators ==
    \/ CallValidateAndCorrectUrl
    \/ CallValidateAndCorrectCountryCode
    \/ CallValidateAndCorrectDate
    \/ CallValidateEmail

SpecValidators == InitValidators /\ [][NextValidators]_vars

DateCalled == fieldResult # NoResult /\ fieldResult.fn = "date"

\* C5: the date validator turns M/YYYY and M-YYYY (month 1..12 written with one
\* or two digits, any 4-digit year) into the zero-padded YYYY-MM, returns a
\* YYYY-MM input unchanged, turns a bare YYYY into YYYY-01, and turns 'present'
\* in any letter case into lowercase 'present'.
C5_DateNormalization ==
    DateCalled /\ IsStr(rawValue) =>
        /\ \A m \in Months : \A f \in MonthForms(m) : \A sep \in {"/", "-"} : \A y \in Years :
               rawValue.s = f \o sep \o y => fieldResult.value = Str(y \o "-" \o TwoDigit(m))
        /\ rawValue.s \in YearMonthInputs => fieldResult.value = rawValue
        /\ rawValue.s \in Years => fieldResult.value = Str(rawValue.s \o "-01")
        /\ rawValue.s \in PresentInputs => fieldResult.value = Str("present")

\* A one-digit month with a dash has been normalized.
C5_Witness == DateCalled /\ rawValue = Str("3-2020") /\ fieldResult.value = Str("2020-03")

\* Null, undefined, empty, whitespace-only and non-string inputs.
IsBlankInput(v) == ~IsStr(v) \/ Trim(v.s) = ""

\* C6: every field validator (URL, email, country code, date) returns null and
\* does not raise when its input is null, undefined, an empty or whitespace-only
\* string, or a non-string value.
C6_ValidatorNullSafety ==
    fieldResult # NoResult /\ IsBlankInput(rawValue) => fieldResult.value = Null

\* The e-mail validator has been called on a number and returned null.
C6_Witness ==
    /\ fieldResult # NoResult /\ fieldResult.fn = "email"
    /\ rawValue = Num(2023) /\ fieldResult.value = Null

\* the text has none of the shapes the date validator recognizes
UnrecognizedShape(text) ==
    /\ text # "" /\ text # "present"
    /\ MonthYearMatch(text) = 0 /\ ~IsYearMonth(text) /\ ~IsYear(text)

\* C14: the date validator returns a string of no recognized shape as it
\* was given: the result equals the input ('Jan 2020' gives 'Jan 2020').
C14_UnrecognizedDateUnmodified ==
    DateCalled /\ IsStr(rawValue) /\ UnrecognizedShape(ToLowerCase(Trim(rawValue.s)))
        => fieldResult.value = rawValue

-----------------------------------------------------------------------------
(* Functional-expertise merge *)

\* A JavaScript array, its elements JavaScript values.
Arr(items) == [t |-> "array", items |-> items]
IsArray(v) == v.t = "array"

\* The valid categories, as getParsingInstructions lists them.
FUNCTIONAL_EXPERTISE_OPTIONS ==
    <<"Trading", "Risk Management", "Quantitative Analysis", "Technology",
      "Operations", "Finance", "Leadership", "Legal", "Compliance", "Research",
      "Analytics", "Engineering">>

Range(seq) == {seq[i] : i \in 1..Len(seq)}

IsValidExpertise(item) == IsStr(item) /\ item.s \in Range(FUNCTIONAL_EXPERTISE_OPTIONS)

validateFunctionalExpertise(expertise) ==
    IF ~IsArray(expertise) THEN <<>>
    ELSE SelectSeq(expertise.items, IsValidExpertise)

MAX_EXPERTISE == 8

\* The loop of lines 1035-1040 over validParserExpertise[i..]
RECURSIVE MergeLoop(_, _, _)
MergeLoop(merged, validParserExpertise, i) ==
    IF i > Len(validParserExpertise) THEN merged
    ELSE IF Len(merged) >= MAX_EXPERTISE THEN merged
    ELSE IF validParserExpertise[i] \notin Range(merged)
         THEN MergeLoop(Append(merged, validParserExpertise[i]), validParserExpertise, i + 1)
         ELSE MergeLoop(merged, validParserExpertise, i + 1)

\* The loop with the cap tested after the push instead of before it.
RECURSIVE MergeLoopLateCap(_, _, _)
MergeLoopLateCap(merged, validParserExpertise, i) ==
    IF i > Len(validParserExpertise) THEN merged
    ELSE IF validParserExpertise[i] \notin Range(merged)
         THEN IF Len(merged) >= MAX_EXPERTISE + 1 THEN merged
              ELSE MergeLoopLateCap(Append(merged, validParserExpertise[i]),
                                    validParserExpertise, i + 1)
         ELSE MergeLoopLateCap(merged, validParserExpertise, i + 1)

MergeLateCap(user, parser) ==
    MergeLoopLateCap(validateFunctionalExpertise(user), validateFunctionalExpertise(parser), 1)

mergeFunctionalExpertise(user, parser) ==
    MergeLoop(validateFunctionalExpertise(user), validateFunctionalExpertise(parser), 1)

-----------------------------------------------------------------------------
(* Specification of the merge: one call on one pair of lists *)

MaxUserLen == 2
MaxParserLen == 3

SeqsUpTo(S, n) == UNION {[1..k -> S] : k \in 0..n}

Cat(i) == Str(FUNCTIONAL_EXPERTISE_OPTIONS[i])
CatsFromTo(a, b) == [i \in 1..(b - a + 1) |-> Cat(a + i - 1)]
NumCategories == Len(FUNCTIONAL_EXPERTISE_OPTIONS)

UserItems == {Str("Trading"), Str("Finance"), Str("Sales"), Num(7)}
ParserItems == {Str("Trading"), Str("Legal"), Str("Research"), Str("trading")}

UserLists ==
    {Null, Undefined}
    \cup {Arr(q) : q \in SeqsUpTo(UserItems, MaxUserLen)}
    \cup {Arr(CatsFromTo(1, k)) : k \in 3..NumCategories}
    \cup {Arr(CatsFromTo(1, 7) \o <<Cat(2)>>),
          Arr(CatsFromTo(1, 8) \o <<Cat(2)>>),
          Arr(<<Str("Sales")>> \o CatsFromTo(1, 8))}

ParserLists ==
    {Null, Str("Trading")}
    \cup {Arr(q) : q \in SeqsUpTo(ParserItems, MaxParserLen)}
    \cup {Arr(CatsFromTo(k, NumCategories)) : k \in 1..(NumCategories - 3)}
    \cup {Arr(CatsFromTo(9, 12) \o <<Str("Sales")>>),
          Arr(<<Cat(12), Cat(11), Cat(11), Cat(10), Cat(9), Cat(12)>>)}

InitMerge ==
    /\ userExpertise \in UserLists
    /\ parserExpertise \in ParserLists
    /\ mergedExpertise = NoResult
    /\ ValidatorsIdle /\ RecordIdle /\ MonthsIdle /\ JobIdle

CallMergeFunctionalExpertise ==
    /\ mergedExpertise = NoResult
    /\ mergedExpertise' = Arr(mergeFunctionalExpertise(userExpertise, parserExpertise))
    /\ UNCHANGED <<userExpertise, parserExpertise, validatorVars, recordVars,
                   monthsVars, jobVars>>

NextMerge == CallMergeFunctionalExpertise

SpecMerge == InitMerge /\ [][NextMerge]_vars

\* The members of a list that are strings of the closed category set, in order.
ValidOf(list) ==
    IF ~IsArray(list) THEN <<>>
    ELSE LET keep == {i \in 1..Len(list.items) :
                         /\ list.items[i].t = "string"
                         /\ \E c \in 1..NumCategories :
                                list.items[i].s = FUNCTIONAL_EXPERTISE_OPTIONS[c]}
             nth(k) == CHOOSE i \in keep : Cardinality({j \in keep : j < i}) = k - 1
         IN  [k \in 1..Cardinality(keep) |-> list.items[nth(k)]]

\* The valid parser values that are no user selection, each at its first
\* occurrence, in parser order.
FreshParserValues(user, parser) ==
    LET vu == ValidOf(user)
        vp == ValidOf(parser)
        keep == {i \in 1..Len(vp) :
                    /\ \A j \in 1..Len(vu) : vu[j] # vp[i]
                    /\ \A j \in 1..(i - 1) : vp[j] # vp[i]}
        nth(k) == CHOOSE i \in keep : Cardinality({j \in keep : j < i}) = k - 1
    IN  [k \in 1..Cardinality(keep) |-> vp[nth(k)]]

Min(a, b) == IF a <= b THEN a ELSE b
Max(a, b) == IF a >= b THEN a ELSE b

\* C8: the merge keeps every valid user selection, in the user's order, as the
\* prefix of the result, then appends the valid parser values not already
\* present, in parser order, until 8 entries are reached; members outside the
\* closed category set are dropped from both inputs first.  With 8 valid user
\* selections and 5 other parser values the result is the 8 user selections.
C8_MergeKeepsUserPrefix ==
    mergedExpertise # NoResult =>
        LET vu == ValidOf(userExpertise)
            fresh == FreshParserValues(userExpertise, parserExpertise)
            room == Max(0, 8 - Len(vu))
        IN  /\ mergedExpertise.items = vu \o SubSeq(fresh, 1, Min(Len(fresh), room))
            /\ (Len(vu) = 8 /\ userExpertise = Arr(vu) /\ Len(fresh) >= 4
                    => mergedExpertise = userExpertise)

\* 8 user selections, 4 other valid parser values and one invalid one: the
\* result is the user's list.
C8_Witness ==
    /\ userExpertise = Arr(CatsFromTo(1, 8))
    /\ parserExpertise = Arr(CatsFromTo(9, 12) \o <<Str("Sales")>>)
    /\ mergedExpertise = Arr(CatsFromTo(1, 8))

\* C9: the list mergeFunctionalExpertise returns has at most 8 entries, for
\* every pair of inputs.
C9_MergedAtMostEight ==
    mergedExpertise # NoResult => Len(mergedExpertise.items) <= 8

-----------------------------------------------------------------------------
(* Interval merger *)

(***************************************************************************)
(* A Date is its time value in half-month ticks: 2 * (year * 12 + month    *)
(* index) for midnight UTC of the first of a month, which is what          *)
(* new Date('YYYY-MM-01') gives, and one more for any later instant of the *)
(* month.  getFullYear() * 12 + getMonth() is the tick halved: the         *)
(* process runs in UTC (the runner image sets no time zone).  NaN is the   *)
(* time value of an Invalid Date; every comparison with it is false.       *)
(***************************************************************************)
NaN == -1

DigitValue(c) == CHOOSE d \in 0..9 : CharAt("0123456789", d + 1) = c

RECURSIVE ParseInt(_)
ParseInt(s) ==
    IF s = "" THEN 0
    ELSE 10 * ParseInt(SubSeq(s, 1, Len(s) - 1)) + DigitValue(CharAt(s, Len(s)))

\* new Date(dateField + '-01') for a dateField of the shape YYYY-MM.
NewDate(dateField) ==
    IF /\ IsYearMonth(dateField)
       /\ ParseInt(SubSeq(dateField, 6, 7)) \in 1..12
    THEN 2 * (ParseInt(SubSeq(dateField, 1, 4)) * 12 + ParseInt(SubSeq(dateField, 6, 7)) - 1)
    ELSE NaN

\* a <= b on Dates
DateLeq(a, b) == a # NaN /\ b # NaN /\ a <= b

\* (end.getFullYear() - start.getFullYear()) * 12 + (end.getMonth() - start.getMonth())
MonthsBetween(start, end) == (end \div 2) - (start \div 2)

\* Lines 841-847 with the isCurrent test dropped: an endDate wins over isCurrent.
ResolveEndIgnoringCurrent(exp, nowDate) ==
    IF Truthy(exp.endDate) /\ ToLowerCase(exp.endDate.s) # "present"
    THEN NewDate(exp.endDate.s)
    ELSE nowDate

\* Lines 840-847: the end of an entry's interval.
ResolveEnd(exp, nowDate) ==
    IF exp.isCurrent = Bool(TRUE) THEN nowDate
    ELSE IF Truthy(exp.endDate) /\ ToLowerCase(exp.endDate.s) # "present"
         THEN NewDate(exp.endDate.s)
         ELSE nowDate

\* Step 1 (lines 825-860): the valid ranges, in list order.
RECURSIVE ParseRanges(_, _, _)
ParseRanges(exps, i, nowDate) ==
    IF i > Len(exps) THEN <<>>
    ELSE LET exp == exps[i]
             rest == ParseRanges(exps, i + 1, nowDate)
         IN  IF ~Truthy(exp.startDate) THEN rest
             ELSE LET start == NewDate(exp.startDate.s)
                      end == ResolveEnd(exp, nowDate)
                  IN  IF DateLeq(start, end)
                      THEN <<[start |-> start, end |-> end]>> \o rest
                      ELSE rest

\* Step 2 (line 865): a stable sort by start.
RECURSIVE InsertByStart(_, _)
InsertByStart(sorted, r) ==
    IF sorted = <<>> THEN <<r>>
    ELSE IF r.start < Head(sorted).start THEN <<r>> \o sorted
    ELSE <<Head(sorted)>> \o InsertByStart(Tail(sorted), r)

RECURSIVE SortByStart(_)
SortByStart(ranges) ==
    IF ranges = <<>> THEN <<>>
    ELSE InsertByStart(SortByStart(SubSeq(ranges, 1, Len(ranges) - 1)), ranges[Len(ranges)])

\* Step 3 (lines 868-881): the sweep over ranges[i..].
RECURSIVE MergeRanges(_, _, _)
MergeRanges(merged, ranges, i) ==
    IF i > Len(ranges) THEN merged
    ELSE LET current == ranges[i]
             last == merged[Len(merged)]
         IN  IF current.start <= last.end
             THEN MergeRanges([merged EXCEPT ![Len(merged)].end = Max(last.end, current.end)],
                              ranges, i + 1)
             ELSE MergeRanges(Append(merged, current), ranges, i + 1)

\* Step 4 (lines 884-890): the months of merged[i..].
RECURSIVE SumMonths(_, _)
SumMonths(merged, i) ==
    IF i > Len(merged) THEN 0
    ELSE Max(0, MonthsBetween(merged[i].start, merged[i].end)) + SumMonths(merged, i + 1)

\* The months of every range added up, without the merge of step 3.
TotalWithoutMerge(exps, nowDate) ==
    IF ~IsArray(exps) \/ Len(exps.items) = 0 THEN 0
    ELSE LET ranges == ParseRanges(exps.items, 1, nowDate)
         IN  IF Len(ranges) = 0 THEN 0 ELSE SumMonths(SortByStart(ranges), 1)

calculateTotalWorkMonths(exps, nowDate) ==
    IF ~IsArray(exps) \/ Len(exps.items) = 0 THEN 0
    ELSE LET ranges == ParseRanges(exps.items, 1, nowDate)
         IN  IF Len(ranges) = 0 THEN 0
             ELSE LET sorted == SortByStart(ranges)
                  IN  SumMonths(MergeRanges(<<sorted[1]>>, sorted, 2), 1)

\* Math.floor(months / 12); months is always a non-negative number here.
calculateYearsFromMonths(months) == IF months < 0 THEN 0 ELSE months \div 12

-----------------------------------------------------------------------------
(* Specification of the interval merger: one call on one list *)

MaxExperiences == 2

DateUniverse == {"2020-01", "2020-06", "2021-01", "2022-01"}

\* An instant in the middle of July 2024, and one in the middle of June 2020.
July2024 == 2 * (2024 * 12 + 6) + 1
June2020 == 2 * (2020 * 12 + 5) + 1
NowValues == {July2024, June2020}

Exp(start, end, isCurrent) == [startDate |-> start, endDate |-> end, isCurrent |-> isCurrent]

ExperienceEntries ==
    {Exp(s, e, c) : s \in {Str(d) : d \in DateUniverse} \cup {Null},
                    e \in {Str(d) : d \in DateUniverse} \cup {Null, Str("present")},
                    c \in {Bool(TRUE), Bool(FALSE)}}

ExampleOverlap ==
    Arr(<<Exp(Str("2020-01"), Str("2021-01"), Bool(FALSE)),
          Exp(Str("2020-06"), Str("2022-01"), Bool(FALSE))>>)
ExampleDisjoint ==
    Arr(<<Exp(Str("2018-01"), Str("2019-01"), Bool(FALSE)),
          Exp(Str("2020-01"), Str("2021-01"), Bool(FALSE))>>)
\* Three intervals given out of order: the first and the last are joined
\* only through the middle one; and two that touch with one apart.
ExampleChain ==
    Arr(<<Exp(Str("2021-01"), Str("2022-01"), Bool(FALSE)),
          Exp(Str("2019-01"), Str("2020-06"), Bool(FALSE)),
          Exp(Str("2020-01"), Str("2021-06"), Bool(FALSE))>>)
ExampleTouching ==
    Arr(<<Exp(Str("2020-06"), Str("2021-01"), Bool(FALSE)),
          Exp(Str("2018-01"), Str("2018-03"), Bool(FALSE)),
          Exp(Str("2020-01"), Str("2020-06"), Bool(FALSE))>>)

ExperienceLists ==
    {Null, ExampleOverlap, ExampleDisjoint, ExampleChain, ExampleTouching}
    \cup {Arr(q) : q \in SeqsUpTo(ExperienceEntries, MaxExperiences)}

InitMonths ==
    /\ experiences \in ExperienceLists
    /\ now \in NowValues
    /\ totalMonths = NoResult
    /\ ValidatorsIdle /\ MergeIdle /\ JobIdle
    /\ rawRecord = Null /\ extractedData = Null /\ corrections = <<>>
    /\ firstCorrected = Null /\ inferences = <<>> /\ stage = "idle"

CallCalculateTotalWorkMonths ==
    /\ totalMonths = NoResult
    /\ totalMonths' = Num(calculateTotalWorkMonths(experiences, now))
    /\ UNCHANGED <<experiences, now, rawRecord, extractedData, corrections,
                   firstCorrected, inferences, stage, validatorVars, mergeVars, jobVars>>

NextMonths == CallCalculateTotalWorkMonths

SpecMonths == InitMonths /\ [][NextMonths]_vars

\* The month index (year * 12 + month - 1) of a YYYY-MM string.
MonthIndex(ym) == ParseInt(SubSeq(ym, 1, 4)) * 12 + ParseInt(SubSeq(ym, 6, 7)) - 1

IsClosed(exp) ==
    /\ exp.isCurrent # Bool(TRUE)
    /\ exp.startDate.t = "string"
    /\ exp.endDate.t = "string" /\ exp.endDate.s # "present"

\* The calendar months the closed intervals of a list cover: month m is
\* covered by [start, end] when start <= m < end.
CoveredMonths(list) ==
    UNION {MonthIndex(list[i].startDate.s)..(MonthIndex(list[i].endDate.s) - 1) :
               i \in 1..Len(list)}

\* C3: calculateTotalWorkMonths counts the union of the closed YYYY-MM
\* intervals, not their sum: overlapping or touching intervals count once,
\* disjoint ones add up; [2020-01,2021-01] with [2020-06,2022-01] gives 24 and
\* [2018-01,2019-01] with [2020-01,2021-01] gives 24.
C3_UnionOfIntervals ==
    totalMonths # NoResult /\ IsArray(experiences) =>
        /\ (\A i \in 1..Len(experiences.items) : IsClosed(experiences.items[i]))
               => totalMonths = Num(Cardinality(CoveredMonths(experiences.items)))
        /\ experiences = ExampleOverlap => totalMonths = Num(24)
        /\ experiences = ExampleDisjoint => totalMonths = Num(24)

\* The overlapping pair has been counted as 24 months.
C3_Witness == experiences = ExampleOverlap /\ totalMonths = Num(24)

-----------------------------------------------------------------------------
(* Categorical matcher (fuzzyMatchToOptions) *)

\* An element of an options array: a {value, label} pair; a bare string
\* option is Str(s).
Opt(value, label) == [t |-> "object", value |-> Str(value), label |-> Str(label)]

\* The index of the first element Array.prototype.find accepts, 0 for none.
FirstIndex(seq, P(_)) ==
    IF \E i \in 1..Len(seq) : P(seq[i])
    THEN CHOOSE i \in 1..Len(seq) : P(seq[i]) /\ \A j \in 1..(i - 1) : ~P(seq[j])
    ELSE 0

\* optionsArray.map(opt => typeof opt === 'string' ? opt : opt.value).filter(Boolean)
RECURSIVE OptionValues(_)
OptionValues(optionsArray) ==
    IF optionsArray = <<>> THEN <<>>
    ELSE LET opt == Head(optionsArray)
             v == IF IsStr(opt) THEN opt ELSE opt.value
         IN  (IF Truthy(v) THEN <<v.s>> ELSE <<>>) \o OptionValues(Tail(optionsArray))

\* .filter(opt => typeof opt === 'object' && opt.value && opt.label)
RECURSIVE LabelledOptions(_)
LabelledOptions(optionsArray) ==
    IF optionsArray = <<>> THEN <<>>
    ELSE LET opt == Head(optionsArray)
         IN  (IF opt.t = "object" /\ Truthy(opt.value) /\ Truthy(opt.label)
              THEN <<opt>> ELSE <<>>) \o LabelledOptions(Tail(optionsArray))

\* Either string contains the other.
EitherIncludes(a, b) == Includes(a, b) \/ Includes(b, a)

\* The own keys of commonMappings, each with its value.
commonMappings ==
    << <<"usa", "United States">>, <<"uk", "United Kingdom">>,
       <<"uae", "United Arab Emirates">>,
       <<"mother tongue", "Native">>, <<"native", "Native">>,
       <<"native speaker", "Native">>, <<"langue maternelle", "Native">>,
       <<"muttersprache", "Native">>,
       <<"full professional proficiency", "Fluent">>, <<"courant", "Fluent">>,
       <<"professional", "Advanced">>, <<"proficient", "Advanced">>,
       <<"professional working proficiency", "Intermediate">>,
       <<"limited working proficiency", "Intermediate">>,
       <<"conversational", "Intermediate">>, <<"working proficiency", "Intermediate">>,
       <<"professional working", "Intermediate">>,
       <<"elementary", "Beginner">>, <<"basic", "Beginner">>,
       <<"grundkenntnisse", "Beginner">>, <<"notions", "Beginner">>,
       <<"master of science", "MSc">>, <<"master of arts", "MA">>,
       <<"master of engineering", "MSc">>, <<"master of law", "MA">>,
       <<"master of laws", "MA">>, <<"master of business administration", "MBA">>,
       <<"master of advanced studies", "MAS">>,
       <<"master of public administration", "MA">>, <<"master of finance", "MSc">>,
       <<"master of public health", "MSc">>, <<"master of education", "MA">>,
       <<"bachelor of science", "BSc">>, <<"bachelor of arts", "BA">>,
       <<"bachelor of engineering", "BSc">>, <<"bachelor of commerce", "BSc">>,
       <<"bachelor of technology", "BSc">>, <<"bachelor of laws", "BA">>,
       <<"bachelor of law", "BA">>, <<"llm", "MA">>, <<"llb", "BA">>,
       <<"mba", "MBA">>, <<"mas", "MAS">>, <<"btech", "BSc">>, <<"mtech", "MSc">>,
       <<"bcom", "BSc">>, <<"diplom", "MSc">>, <<"diplom-ingenieur", "MSc">>,
       <<"diplom-kaufmann", "MSc">>, <<"licence", "BA">>, <<"maitrise", "MSc">>,
       <<"postgraduate diploma", "Certificate">>,
       <<"graduate certificate", "Certificate">>,
       <<"postgraduate certificate", "Certificate">>,
       <<"doctor of philosophy", "PhD">>,
       <<"doctor of business administration", "PhD">>, <<"juris doctor", "MA">> >>

\* The all-lowercase property names an object literal inherits from
\* Object.prototype: commonMappings[key] is then a function or an object.
InheritedKeys == {"constructor", "__proto__"}

\* commonMappings[valueLower]
MappingLookup(valueLower) ==
    LET k == FirstIndex(commonMappings, LAMBDA pair : pair[1] = valueLower)
    IN  IF k > 0 THEN Str(commonMappings[k][2])
        ELSE IF valueLower \in InheritedKeys THEN Obj
        ELSE Undefined

\* the matcher with its substring step on values put before the exact step
fuzzyMatchSubstringFirst(value, optionsArray) ==
    IF ~Truthy(value) \/ ~IsStr(value) THEN Null
    ELSE LET valueLower == Trim(ToLowerCase(value.s))
             options == OptionValues(optionsArray)
             partialMatch ==
                 FirstIndex(options, LAMBDA opt : EitherIncludes(ToLowerCase(opt), valueLower))
         IN  IF partialMatch > 0 THEN Str(options[partialMatch]) ELSE Null

fuzzyMatchToOptions(value, optionsArray) ==
    IF ~Truthy(value) \/ ~IsStr(value) THEN Null
    ELSE LET valueLower == Trim(ToLowerCase(value.s))
             options == OptionValues(optionsArray)
             exactMatch == FirstIndex(options, LAMBDA opt : ToLowerCase(opt) = valueLower)
             partialMatch ==
                 FirstIndex(options, LAMBDA opt : EitherIncludes(ToLowerCase(opt), valueLower))
             labelled == LabelledOptions(optionsArray)
             labelMatch ==
                 FirstIndex(labelled,
                            LAMBDA opt : EitherIncludes(ToLowerCase(opt.label.s), valueLower))
         IN  IF exactMatch > 0 THEN Str(options[exactMatch])
             ELSE IF partialMatch > 0 THEN Str(options[partialMatch])
             ELSE IF labelMatch > 0 THEN labelled[labelMatch].value
             ELSE IF Truthy(MappingLookup(valueLower)) THEN MappingLookup(valueLower)
             ELSE Null

\* optionsArray = null is NoOptions; an empty array is passed on as it is.
NoOptions == <<>>

validateFieldValue(fieldName, value, optionsArray) ==
    IF value = Null \/ value = Undefined THEN Null
    ELSE IF fieldName \in {"linkedinUrl", "githubUrl", "portfolioUrl", "url"}
         THEN validateAndCorrectUrl(value)
    ELSE IF fieldName = "email" THEN validateEmail(value)
    ELSE IF fieldName = "country_code" THEN validateAndCorrectCountryCode(value)
    ELSE IF Includes(ToLowerCase(fieldName), "date") \/ fieldName \in {"startDate", "endDate"}
         THEN validateAndCorrectDate(value)
    ELSE IF Len(optionsArray) > 0 THEN fuzzyMatchToOptions(value, optionsArray)
    ELSE value

-----------------------------------------------------------------------------
(* The option sets of formOptions.js *)

\* Degree types, lowest level first; the associate values come before the
\* master values, so that the substring step finds "as" in "master" first.
DEGREE_TYPE_OPTIONS ==
    <<Opt("AA", "Associate of Arts"), Opt("AS", "Associate of Science"),
      Opt("AAS", "Associate of Applied Science"),
      Opt("BA", "Bachelor of Arts"), Opt("BSc", "Bachelor of Science"),
      Opt("MA", "Master of Arts"), Opt("MSc", "Master of Science"),
      Opt("MBA", "Master of Business Administration"),
      Opt("MAS", "Master of Advanced Studies"),
      Opt("PhD", "Doctorate"), Opt("Certificate", "Certificate")>>

GENERAL_FIELD_OPTIONS ==
    <<Opt("Engineering", "Engineering"), Opt("Business", "Business and Economics"),
      Opt("Law", "Law")>>

COUNTRY_OPTIONS ==
    <<Opt("Switzerland", "Switzerland"), Opt("Germany", "Germany"),
      Opt("United States", "United States"), Opt("United Kingdom", "United Kingdom")>>

POSITION_TYPE_OPTIONS ==
    <<Opt("Full-time", "Full-time"), Opt("Part-time", "Part-time"),
      Opt("Internship", "Internship"),
      Opt("Freelance / Contractor", "Freelance / Contractor"),
      Opt("Volunteer", "Volunteer")>>

LANGUAGE_PROFICIENCY_OPTIONS ==
    <<Opt("Native", "Native"), Opt("Fluent", "Fluent (C2)"), Opt("Advanced", "Advanced (C1)"),
      Opt("Intermediate", "Intermediate (B1-B2)"), Opt("Beginner", "Beginner (A1-A2)"),
      Opt("None", "None")>>

SKILL_PROFICIENCY_OPTIONS ==
    <<Opt("Beginner", "Beginner"), Opt("Intermediate", "Intermediate"),
      Opt("Advanced", "Advanced"), Opt("Expert", "Expert")>>

DURATION_OPTIONS ==
    <<Opt("3", "3 months"), Opt("6", "6 months"), Opt("12", "12 months")>>

LOCATION_OPTIONS ==
    <<Opt("Zurich", "Zurich"), Opt("Geneva", "Geneva"), Opt("Remote", "Remote")>>

INDUSTRY_PREFERENCE_OPTIONS ==
    <<Opt("Banking", "Banking"), Opt("Technology", "Technology"), Opt("Energy", "Energy")>>

\* A simple array of strings (getOptionsStringForSimpleArray, line 1059).
JOB_TYPE_OPTIONS == <<Str("Full-time"), Str("Part-time"), Str("Internship")>>

-----------------------------------------------------------------------------
(* Specification of the categorical matcher: one call on one raw value and   *)
(* one of the option sets the record validator hands to it                   *)

MatcherOptionSets ==
    {DEGREE_TYPE_OPTIONS, GENERAL_FIELD_OPTIONS, COUNTRY_OPTIONS, POSITION_TYPE_OPTIONS,
     LANGUAGE_PROFICIENCY_OPTIONS, SKILL_PROFICIENCY_OPTIONS, DURATION_OPTIONS,
     LOCATION_OPTIONS, INDUSTRY_PREFERENCE_OPTIONS}

\* raw values for every step of the matcher: exact, substring of a value,
\* substring of a label, synonym, inherited key, nothing, blank
MatcherStrings ==
    {"MSc", " msc ", "MAS", "Master of Accounting", "Doctorate", "doctor of philosophy",
     "mba", "usa", "USA", "uk", "native", "Mother Tongue", "professional", "basic",
     "Germany", "german", "Full-time", "full", "6 months", "12", "Zurich", "Bank",
     "constructor", "xyz", "  ", ""}

MatcherInputs == {Str(s) : s \in MatcherStrings} \cup NonStringInputs

InitMatcher ==
    /\ rawValue \in MatcherInputs
    /\ fieldResult = NoResult
    /\ RecordIdle /\ MonthsIdle /\ MergeIdle /\ JobIdle

CallFuzzyMatchToOptions ==
    /\ fieldResult = NoResult
    /\ \E optionsArray \in MatcherOptionSets :
           fieldResult' = [fn |-> "fuzzyMatchToOptions", options |-> optionsArray,
                           value |-> fuzzyMatchToOptions(rawValue, optionsArray)]
    /\ UNCHANGED <<rawValue, recordVars, monthsVars, mergeVars, jobVars>>

NextMatcher == CallFuzzyMatchToOptions

SpecMatcher == InitMatcher /\ [][NextMatcher]_vars

MatcherCalled == fieldResult # NoResult /\ fieldResult.fn = "fuzzyMatchToOptions"

\* the values of an option set
Members(optionsArray) ==
    {Str(OptionValues(optionsArray)[i]) : i \in 1..Len(OptionValues(optionsArray))}

\* C12: the matcher returns a member of the option set it was given, or null.
C12_MatcherBinaryOutcome ==
    MatcherCalled =>
        fieldResult.value = Null \/ fieldResult.value \in Members(fieldResult.options)

Least(S) == CHOOSE i \in S : \A j \in S : i <= j

\* the positions of the option values equal to the text
ExactHits(values, text) == {i \in 1..Len(values) : ToLowerCase(values[i]) = text}

\* the positions of the texts that contain the text or are contained in it
SubstringHits(texts, text) ==
    {i \in 1..Len(texts) :
         Includes(ToLowerCase(texts[i]), text) \/ Includes(text, ToLowerCase(texts[i]))}

LabelsOf(optionsArray) ==
    [i \in 1..Len(LabelledOptions(optionsArray)) |-> LabelledOptions(optionsArray)[i].label.s]

\* what the steps give in the order exact, substring of a value, substring
\* of a label, synonym table, null
FirstHit(text, optionsArray) ==
    IF ExactHits(OptionValues(optionsArray), text) # {}
    THEN Str(OptionValues(optionsArray)[Least(ExactHits(OptionValues(optionsArray), text))])
    ELSE IF SubstringHits(OptionValues(optionsArray), text) # {}
    THEN Str(OptionValues(optionsArray)[Least(SubstringHits(OptionValues(optionsArray), text))])
    ELSE IF SubstringHits(LabelsOf(optionsArray), text) # {}
    THEN LabelledOptions(optionsArray)[Least(SubstringHits(LabelsOf(optionsArray), text))].value
    ELSE IF Truthy(MappingLookup(text)) THEN MappingLookup(text)
    ELSE Null

\* C17: for a non-empty string the matcher returns the hit of the first step
\* that has one, the steps taken in the order exact match on a value,
\* substring match on a value, substring match on a label (that option's
\* value), synonym table; with no hit it returns null.
C17_FirstHitWins ==
    MatcherCalled /\ IsStr(rawValue) /\ rawValue.s # "" =>
        fieldResult.value = FirstHit(Trim(ToLowerCase(rawValue.s)), fieldResult.options)

\* "MAS" has an exact hit on the ninth degree value and a substring hit on
\* the second ("as"): the exact hit was returned.
C17_Witness ==
    /\ MatcherCalled /\ rawValue = Str("MAS") /\ fieldResult.options = DEGREE_TYPE_OPTIONS
    /\ SubstringHits(OptionValues(DEGREE_TYPE_OPTIONS), "mas") # {}
    /\ Least(SubstringHits(OptionValues(DEGREE_TYPE_OPTIONS), "mas"))
           < Least(ExactHits(OptionValues(DEGREE_TYPE_OPTIONS), "mas"))
    /\ fieldResult.value = Str("MAS")

-----------------------------------------------------------------------------
(* Record validator (validateAndCorrectData) *)

RECURSIVE NatToString(_)
NatToString(n) ==
    IF n < 10 THEN CharAt("0123456789", n + 1)
    ELSE NatToString(n \div 10) \o CharAt("0123456789", (n % 10) + 1)

\* The text a template literal puts for ${v}.
ToStringJS(v) ==
    CASE v.t = "string" -> v.s
      [] v.t = "number" -> NatToString(v.n)
      [] v.t = "boolean" -> IF v.b THEN "true" ELSE "false"
      [] v.t = "null" -> "null"
      [] v.t = "undefined" -> "undefined"
      [] OTHER -> "[object Object]"

\* The record validator's state: the copy it corrects and its log.
Correcting(corrected, log) == [corrected |-> corrected, corrections |-> log]

\* Lines 666-674, for one of the three URL fields.
UrlField(st, field) ==
    IF Truthy(st.corrected[field])
    THEN LET original == st.corrected[field]
             url == validateAndCorrectUrl(original)
         IN  Correcting([st.corrected EXCEPT ![field] = url],
                        IF url # original
                        THEN Append(st.corrections, "Added https:// to " \o field)
                        ELSE st.corrections)
    ELSE st

\* Lines 677-683.
EmailField(st) ==
    IF Truthy(st.corrected.email)
    THEN LET original == st.corrected.email
             email == validateEmail(original)
         IN  Correcting([st.corrected EXCEPT !.email = email],
                        IF ~Truthy(email)
                        THEN Append(st.corrections,
                                    "Removed invalid email: " \o ToStringJS(original))
                        ELSE st.corrections)
    ELSE st

\* Lines 686-692.
CountryCodeField(st) ==
    IF Truthy(st.corrected.country_code)
    THEN LET original == st.corrected.country_code
             code == validateAndCorrectCountryCode(original)
         IN  Correcting([st.corrected EXCEPT !.country_code = code],
                        IF code # original
                        THEN Append(st.corrections, "Added + to country code")
                        ELSE st.corrections)
    ELSE st

masterKeywords == {"master", "msc", "mba", "llm", "maitrise", "diplom", "mas"}

AssociateValues == {Str("AA"), Str("AS"), Str("AAS")}

\* The guard with 'master' as its only keyword.
GuardForMasterOnly(edu, resolvedDegreeType) ==
    /\ IsStr(edu.degreeType)
    /\ resolvedDegreeType \in AssociateValues
    /\ Includes(ToLowerCase(edu.degreeType.s), "master")

\* The test of lines 704-707.
GuardApplies(edu, resolvedDegreeType) ==
    /\ IsStr(edu.degreeType)
    /\ resolvedDegreeType \in AssociateValues
    /\ \E kw \in masterKeywords : Includes(ToLowerCase(edu.degreeType.s), kw)

\* The matcher's answer kept as it is, without the guard of lines 704-714.
FinalDegreeTypeUnguarded(edu, resolvedDegreeType) == resolvedDegreeType

\* Lines 703-714.
finalDegreeType(edu, resolvedDegreeType) ==
    IF GuardApplies(edu, resolvedDegreeType) THEN Str("MSc") ELSE resolvedDegreeType

\* Lines 703-725 for one entry: the corrected entry and what it logs.
EducationResult(edu, resolvedDegreeType) ==
        [entry |->
             [edu EXCEPT
                 !.degreeType = finalDegreeType(edu, resolvedDegreeType),
                 !.generalField =
                     validateFieldValue("generalField", edu.generalField, GENERAL_FIELD_OPTIONS),
                 !.specificField =
                     IF IsStr(edu.specificField) THEN Str(Trim(edu.specificField.s)) ELSE Null,
                 !.country = validateFieldValue("country", edu.country, COUNTRY_OPTIONS),
                 !.startDate = validateAndCorrectDate(edu.startDate),
                 !.endDate = validateAndCorrectDate(edu.endDate)],
         log |->
             IF GuardApplies(edu, resolvedDegreeType)
             THEN <<"Corrected degreeType from " \o resolvedDegreeType.s
                        \o " to MSc (master-level degree)">>
             ELSE <<>>]

\* Lines 698-725 for one entry.
ValidateEducation(edu) ==
    EducationResult(edu, validateFieldValue("degreeType", edu.degreeType, DEGREE_TYPE_OPTIONS))

\* Lines 730-736 for one entry.
ValidateExperience(exp) ==
    [exp EXCEPT
        !.positionType =
            validateFieldValue("positionType", exp.positionType, POSITION_TYPE_OPTIONS),
        !.country = validateFieldValue("country", exp.country, COUNTRY_OPTIONS),
        !.startDate = validateAndCorrectDate(exp.startDate),
        !.endDate = validateAndCorrectDate(exp.endDate)]

\* Lines 741-744 and 762-765 for one entry.
ValidateSkill(skill) ==
    [skill EXCEPT !.level = validateFieldValue("level", skill.level, SKILL_PROFICIENCY_OPTIONS)]

notSoftSkills ==
    {"project management", "sales", "budgeting", "market analysis",
     "business management", "compliance", "accounting", "financial analysis",
     "business development", "marketing", "operations management",
     "supply chain", "risk management", "data analysis", "quality management"}

\* Lines 757-758: (skill.name || '').toLowerCase().trim() is a blocked name.
IsBlocked(skill) ==
    LET name == IF Truthy(skill.name) THEN skill.name.s ELSE ""
    IN  Trim(ToLowerCase(name)) \in notSoftSkills

\* Lines 770-779 for one entry; delete leaves the field undefined.
ValidateLanguage(lang) ==
    LET validatedProficiency ==
            validateFieldValue("proficiency", lang.proficiency, LANGUAGE_PROFICIENCY_OPTIONS)
    IN  [lang EXCEPT
            !.proficiency =
                IF Truthy(validatedProficiency) /\ validatedProficiency # Str("None")
                THEN validatedProficiency ELSE Undefined]

\* Lines 784-789 for one entry.
ValidateCertification(cert) ==
    [cert EXCEPT
        !.dateObtained = validateAndCorrectDate(cert.dateObtained),
        !.expiryDate = validateAndCorrectDate(cert.expiryDate),
        !.url = validateAndCorrectUrl(cert.url)]

\* Array.prototype.map
MapSeq(seq, F(_)) == [i \in 1..Len(seq) |-> F(seq[i])]

\* Array.prototype.filter
FilterSeq(seq, P(_)) == SelectSeq(seq, P)

\* The sequences of a sequence of sequences, joined in order.
RECURSIVE Flatten(_)
Flatten(seqs) == IF seqs = <<>> THEN <<>> ELSE Head(seqs) \o Flatten(Tail(seqs))

\* Lines 697-726.
EducationStep(st) ==
    IF IsArray(st.corrected.education_history)
    THEN LET results == MapSeq(st.corrected.education_history.items, ValidateEducation)
         IN  Correcting([st.corrected EXCEPT
                            !.education_history = Arr(MapSeq(results, LAMBDA r : r.entry))],
                        st.corrections \o Flatten(MapSeq(results, LAMBDA r : r.log)))
    ELSE st

\* Lines 729-737.
ExperienceStep(st) ==
    IF IsArray(st.corrected.professional_experience)
    THEN Correcting([st.corrected EXCEPT
                        !.professional_experience =
                            Arr(MapSeq(st.corrected.professional_experience.items,
                                       ValidateExperience))],
                    st.corrections)
    ELSE st

\* Lines 740-745.
TechnicalSkillsStep(st) ==
    IF IsArray(st.corrected.technical_skills)
    THEN Correcting([st.corrected EXCEPT
                        !.technical_skills =
                            Arr(MapSeq(st.corrected.technical_skills.items, ValidateSkill))],
                    st.corrections)
    ELSE st

RemovedMessage(skill) ==
    "Removed \"" \o ToStringJS(skill.name) \o "\" from soft_skills (domain/business skill)"

NotBlocked(skill) == ~IsBlocked(skill)

\* Lines 747-766.
SoftSkillsStep(st) ==
    IF IsArray(st.corrected.soft_skills)
    THEN LET items == st.corrected.soft_skills.items
         IN  Correcting([st.corrected EXCEPT
                            !.soft_skills =
                                Arr(MapSeq(FilterSeq(items, NotBlocked), ValidateSkill))],
                        st.corrections
                            \o MapSeq(FilterSeq(items, IsBlocked), RemovedMessage))
    ELSE st

\* Lines 769-780.
LanguagesStep(st) ==
    IF IsArray(st.corrected.base_languages)
    THEN Correcting([st.corrected EXCEPT
                        !.base_languages =
                            Arr(MapSeq(st.corrected.base_languages.items, ValidateLanguage))],
                    st.corrections)
    ELSE st

\* Lines 783-790.
CertificationsStep(st) ==
    IF IsArray(st.corrected.certifications)
    THEN Correcting([st.corrected EXCEPT
                        !.certifications =
                            Arr(MapSeq(st.corrected.certifications.items,
                                       ValidateCertification))],
                    st.corrections)
    ELSE st

MatchLocation(loc) == fuzzyMatchToOptions(loc, LOCATION_OPTIONS)
MatchIndustry(ind) == fuzzyMatchToOptions(ind, INDUSTRY_PREFERENCE_OPTIONS)

\* Lines 793-810.
PreferencesStep(st) ==
    LET c == st.corrected
    IN  Correcting(
            [c EXCEPT
                !.desired_duration_months =
                    IF Truthy(c.desired_duration_months)
                    THEN fuzzyMatchToOptions(c.desired_duration_months, DURATION_OPTIONS)
                    ELSE c.desired_duration_months,
                !.desired_locations =
                    IF IsArray(c.desired_locations)
                    THEN Arr(FilterSeq(MapSeq(c.desired_locations.items, MatchLocation), Truthy))
                    ELSE c.desired_locations,
                !.desired_industries =
                    IF IsArray(c.desired_industries)
                    THEN Arr(FilterSeq(MapSeq(c.desired_industries.items, MatchIndustry), Truthy))
                    ELSE c.desired_industries],
            st.corrections)

\* The result is { corrected, corrections }.
validateAndCorrectData(data) ==
    PreferencesStep(CertificationsStep(LanguagesStep(
        SoftSkillsStep(TechnicalSkillsStep(
            ExperienceStep(EducationStep(
                CountryCodeField(EmailField(
                    UrlField(UrlField(UrlField(Correcting(data, <<>>), "linkedinUrl"),
                                      "githubUrl"), "portfolioUrl"))))))))))

-----------------------------------------------------------------------------
(* Inference engine (applyInferenceLogic) *)

\* process.env.ENABLE_INFERENCE !== 'false': the default.
ENABLE_INFERENCE == TRUE

\* v.length: a number for an array or a string, undefined for anything else.
LengthOf(v) ==
    IF IsArray(v) THEN Num(Len(v.items))
    ELSE IF IsStr(v) THEN Num(Len(v.s))
    ELSE Undefined

\* The years when the raw value is kept whenever it is a number.
InferYearsKeepingRawNumber(data, nowDate) ==
    IF data.years_of_experience.t = "number" THEN data.years_of_experience.n
    ELSE IF ~Truthy(data.professional_experience)
            \/ LengthOf(data.professional_experience) = Num(0)
         THEN 0
    ELSE calculateYearsFromMonths(
             calculateTotalWorkMonths(data.professional_experience, nowDate))

inferYearsOfExperience(data, nowDate) ==
    IF ~Truthy(data.professional_experience)
       \/ LengthOf(data.professional_experience) = Num(0)
    THEN 0
    ELSE calculateYearsFromMonths(
             calculateTotalWorkMonths(data.professional_experience, nowDate))

\* item?.country of every item, the falsy ones dropped.
RECURSIVE CountriesOf(_)
CountriesOf(items) ==
    IF items = <<>> THEN <<>>
    ELSE (IF Truthy(Head(items).country) THEN <<Head(items).country>> ELSE <<>>)
             \o CountriesOf(Tail(items))

\* .filter((country, index, self) => self.indexOf(country) === index)
RECURSIVE FirstOccurrences(_, _)
FirstOccurrences(seq, i) ==
    IF i > Len(seq) THEN <<>>
    ELSE (IF \E j \in 1..(i - 1) : seq[j] = seq[i] THEN <<>> ELSE <<seq[i]>>)
             \o FirstOccurrences(seq, i + 1)

extractUniqueCountries(items) ==
    IF ~IsArray(items) \/ Len(items.items) = 0 THEN <<>>
    ELSE FirstOccurrences(CountriesOf(items.items), 1)

\* inferDesiredLocations adopting the first country of several.
InferFirstWorkCountry(data) ==
    IF /\ Truthy(data.desired_locations)
       /\ LengthOf(data.desired_locations).t = "number"
       /\ LengthOf(data.desired_locations).n > 0
    THEN data.desired_locations
    ELSE IF extractUniqueCountries(IF Truthy(data.professional_experience)
                                   THEN data.professional_experience
                                   ELSE Arr(<<>>)) = <<>>
    THEN Arr(<<>>)
    ELSE Arr(<<extractUniqueCountries(data.professional_experience)[1]>>)

inferDesiredLocations(data) ==
    IF /\ Truthy(data.desired_locations)
       /\ LengthOf(data.desired_locations).t = "number"
       /\ LengthOf(data.desired_locations).n > 0
    THEN data.desired_locations
    ELSE LET workCountries ==
                 extractUniqueCountries(IF Truthy(data.professional_experience)
                                        THEN data.professional_experience
                                        ELSE Arr(<<>>))
         IN  IF Len(workCountries) = 1 THEN Arr(workCountries) ELSE Arr(<<>>)

\* inferPositionType with the volunteer test before the part-time test.
InferPositionTypeVolunteerFirst(positionName) ==
    IF ~Truthy(positionName) THEN Null
    ELSE IF Includes(ToLowerCase(positionName.s), "intern") THEN Str("Internship")
    ELSE IF \E kw \in {"freelance", "contractor", "consultant"} :
                Includes(ToLowerCase(positionName.s), kw)
         THEN Str("Freelance / Contractor")
    ELSE IF Includes(ToLowerCase(positionName.s), "volunteer") THEN Str("Volunteer")
    ELSE IF \E kw \in {"part-time", "part time", "parttime"} :
                Includes(ToLowerCase(positionName.s), kw)
         THEN Str("Part-time")
    ELSE Str("Full-time")

inferPositionType(positionName) ==
    IF ~Truthy(positionName) THEN Null
    ELSE LET nameLower == ToLowerCase(positionName.s)
         IN  IF Includes(nameLower, "intern") THEN Str("Internship")
             ELSE IF \E kw \in {"freelance", "contractor", "consultant"} :
                         Includes(nameLower, kw)
                  THEN Str("Freelance / Contractor")
             ELSE IF \E kw \in {"part-time", "part time", "parttime"} :
                         Includes(nameLower, kw)
                  THEN Str("Part-time")
             ELSE IF Includes(nameLower, "volunteer") THEN Str("Volunteer")
             ELSE Str("Full-time")

\* Lines 983-992 for one entry.
InferEntryPositionType(exp) ==
    IF ~Truthy(exp.positionType)
    THEN [exp EXCEPT !.positionType = inferPositionType(exp.positionName)]
    ELSE exp

\* The log lines of 986-988 for one entry.
PositionTypeMessage(exp) ==
    IF ~Truthy(exp.positionType) /\ Truthy(inferPositionType(exp.positionName))
    THEN <<"Inferred positionType for " \o ToStringJS(exp.positionName) \o ": "
               \o inferPositionType(exp.positionName).s>>
    ELSE <<>>

\* the entries that give a range in step 1 of calculateTotalWorkMonths
RECURSIVE CountedEntries(_, _)
CountedEntries(items, nowDate) ==
    IF items = <<>> THEN <<>>
    ELSE (IF ParseRanges(<<Head(items)>>, 1, nowDate) # <<>> THEN <<Head(items)>> ELSE <<>>)
             \o CountedEntries(Tail(items), nowDate)

\* Lines 962-970, with the entries the duration computation skips taken out
\* of the record as well.
YearsStepDroppingSkipped(inferred, nowDate) ==
    [inferred |->
         [inferred EXCEPT
             !.years_of_experience = Num(inferYearsOfExperience(inferred, nowDate)),
             !.professional_experience =
                 IF IsArray(@) THEN Arr(CountedEntries(@.items, nowDate)) ELSE @],
     inferences |-> <<"Calculated years_of_experience">>]

\* Lines 962-970.
YearsStep(inferred, nowDate) ==
    LET originalValue == inferred.years_of_experience
        years == Num(inferYearsOfExperience(inferred, nowDate))
    IN  [inferred |-> [inferred EXCEPT !.years_of_experience = years],
         inferences |->
             IF originalValue # years
             THEN <<"Calculated years_of_experience: " \o ToStringJS(years) \o " (was: "
                        \o (IF Truthy(originalValue) THEN ToStringJS(originalValue)
                            ELSE "null") \o ")">>
             ELSE <<"Verified years_of_experience: " \o ToStringJS(years)>>]

\* Lines 973-979.
LocationsStep(st) ==
    IF ~Truthy(st.inferred.desired_locations)
       \/ LengthOf(st.inferred.desired_locations) = Num(0)
    THEN LET inferredLocations == inferDesiredLocations(st.inferred)
         IN  IF LengthOf(inferredLocations).t = "number" /\ LengthOf(inferredLocations).n > 0
             THEN [inferred |-> [st.inferred EXCEPT !.desired_locations = inferredLocations],
                   inferences |->
                       Append(st.inferences, "Inferred desired_locations from work history")]
             ELSE st
    ELSE st

\* Lines 982-993.
PositionTypesStep(st) ==
    IF IsArray(st.inferred.professional_experience)
    THEN LET items == st.inferred.professional_experience.items
         IN  [inferred |->
                  [st.inferred EXCEPT
                      !.professional_experience = Arr(MapSeq(items, InferEntryPositionType))],
              inferences |-> st.inferences \o Flatten(MapSeq(items, PositionTypeMessage))]
    ELSE st

\* The result is { inferred, inferences }.
applyInferenceLogic(data, nowDate) ==
    IF ENABLE_INFERENCE
    THEN PositionTypesStep(LocationsStep(YearsStep(data, nowDate)))
    ELSE [inferred |-> data, inferences |-> <<>>]

-----------------------------------------------------------------------------
(* Specification of post-processing: the record parsed from the Pass 1       *)
(* response is validated, then either validated once more or handed to the  *)
(* inference engine                                                          *)

MaxRecordEntries == 2

\* A record with every field absent.
BaseRecord ==
    [linkedinUrl |-> Undefined, githubUrl |-> Undefined, portfolioUrl |-> Undefined,
     email |-> Undefined, country_code |-> Undefined, years_of_experience |-> Undefined,
     education_history |-> Undefined, professional_experience |-> Undefined,
     technical_skills |-> Undefined, soft_skills |-> Undefined,
     industry_specific_skills |-> Undefined, base_languages |-> Undefined,
     certifications |-> Undefined, desired_duration_months |-> Undefined,
     desired_job_types |-> Undefined, desired_locations |-> Undefined,
     desired_industries |-> Undefined, functional_expertise |-> Undefined,
     contact_address |-> Undefined]

Education(degreeType, generalField, specificField, country, startDate, endDate) ==
    [degreeType |-> degreeType, generalField |-> generalField,
     specificField |-> specificField, country |-> country,
     startDate |-> startDate, endDate |-> endDate]

Experience(positionName, positionType, country, startDate, endDate, isCurrent) ==
    [positionName |-> positionName, companyName |-> Str("Acme AG"),
     positionType |-> positionType, country |-> country,
     startDate |-> startDate, endDate |-> endDate, isCurrent |-> isCurrent]

Skill(name, level) == [name |-> name, level |-> level]
Language(language, proficiency) == [language |-> language, proficiency |-> proficiency]
Certification(name, dateObtained, expiryDate, url) ==
    [name |-> name, dateObtained |-> dateObtained, expiryDate |-> expiryDate, url |-> url]

Strs(S) == {Str(x) : x \in S}
ListsUpTo(S, n) == {Arr(q) : q \in SeqsUpTo(S, n)}

ContactRecords ==
    {[BaseRecord EXCEPT !.linkedinUrl = l, !.portfolioUrl = p, !.email = e,
                        !.country_code = c] :
        l \in {Undefined, Null, Num(5)} \cup Strs({"linkedin.com/in/x", "https://a.b", "  "}),
        p \in {Undefined, Str(" a.b ")},
        e \in {Undefined, Num(5)} \cup Strs({"a@b.co", " a@b.co ", "a@b"}),
        c \in {Undefined} \cup Strs({"41", "+41", " "})}

DegreeInputs ==
    {Undefined, Null, Num(3)}
    \cup Strs({"Master of Accounting", "master of accounting", " MASTER OF ACCOUNTING ",
               "MSc", "msc", "Master of Science", "MBA", "Executive MBA", "AS",
               "Associate of Science", "Bachelor", "LLM", "Diplom", "PhD",
               "MBA Class", "Diplom-Kaufmann Assekuranz",
               "usa", "constructor", "xyz", " "})

EducationRecords ==
    {[BaseRecord EXCEPT !.education_history = Arr(<<Education(d, g, f, c, sd, Null)>>)] :
        d \in DegreeInputs,
        g \in {Undefined} \cup Strs({"engineering", "xyz"}),
        f \in {Undefined, Str(" Computer Science ")},
        c \in {Null} \cup Strs({"usa", "Switzerland"}),
        sd \in {Null, Str("9/2015")}}
    \cup {[BaseRecord EXCEPT !.education_history = h] : h \in {Null, Arr(<<>>)}}

DatedExperiences ==
    {Experience(Str("Engineer"), Undefined, Null, Str("2019-01"), ed, c) :
        ed \in {Undefined} \cup Strs({"2020-01", "Present"}),
        c \in {Bool(TRUE), Undefined}}
    \cup {Experience(Str("Engineer"), Undefined, Null, Str("7/2019"), Str("2020-01"),
                     Bool(TRUE)),
          Experience(Str("Engineer"), Undefined, Null, Str("7/2019"), Undefined, Undefined),
          Experience(Str("Engineer"), Undefined, Null, Null, Str("2020-01"), Undefined),
          Experience(Str("Engineer"), Undefined, Null, Str("2021-01"), Str("2020-01"),
                     Undefined)}

\* The values the extraction step may give for years_of_experience.
RawYears == {Str("15"), Num(3)}

\* { professional_experience: [{ startDate: "2019-01", endDate: "2020-01" },
\*                             { startDate: "2019-07", isCurrent: true }] }
ExampleRecord ==
    [BaseRecord EXCEPT
        !.professional_experience =
            Arr(<<[positionName |-> Undefined, companyName |-> Undefined,
                   positionType |-> Undefined, country |-> Undefined,
                   startDate |-> Str("2019-01"), endDate |-> Str("2020-01"),
                   isCurrent |-> Undefined],
                  [positionName |-> Undefined, companyName |-> Undefined,
                   positionType |-> Undefined, country |-> Undefined,
                   startDate |-> Str("2019-07"), endDate |-> Undefined,
                   isCurrent |-> Bool(TRUE)]>>)]

DatedRecords ==
    {[BaseRecord EXCEPT !.professional_experience = pe, !.years_of_experience = y] :
        pe \in ListsUpTo(DatedExperiences, MaxRecordEntries) \cup {Undefined, Null},
        y \in RawYears}
    \cup {ExampleRecord}

PositionedExperiences ==
    {Experience(n, t, Str("Switzerland"), Str("2020-01"), Str("2021-01"), Undefined) :
        n \in {Null} \cup Strs({"Summer Intern", "Part-time Volunteer"}),
        t \in {Undefined} \cup Strs({"full-time", "usa"})}
    \cup {Experience(Str("Manager"), Undefined, Str("uk"), Str("2020-01"), Str("2021-01"),
                     Undefined),
          Experience(Str("Freelance Consultant"), Undefined, Null, Str("2020-01"),
                     Str("2021-01"), Undefined),
          Experience(Str("Parttime Cashier"), Str("xyz"), Null, Str("2020-01"),
                     Str("2021-01"), Undefined),
          Experience(Str("International Consultant"), Null, Null, Str("2020-01"),
                     Str("2021-01"), Undefined)}

PositionedRecords ==
    {[BaseRecord EXCEPT !.professional_experience = pe, !.desired_locations = dl] :
        pe \in ListsUpTo(PositionedExperiences, MaxRecordEntries),
        dl \in {Undefined, Arr(<<>>), Arr(<<Str("zurich")>>)}}

SkillRecords ==
    {[BaseRecord EXCEPT !.technical_skills = ts, !.soft_skills = ss] :
        ts \in {Undefined}
               \cup ListsUpTo({Skill(Str("Python"), l) :
                                  l \in {Undefined, Num(4)}
                                        \cup Strs({"expert", "basic", "native", "xyz"})}, 1),
        ss \in {Null}
               \cup ListsUpTo({Skill(n, Str("Advanced")) :
                                  n \in {Null} \cup Strs({"Leadership", " Sales ", "Accounting"})},
                              MaxRecordEntries)}

LanguageRecords ==
    {[BaseRecord EXCEPT !.base_languages = bl, !.certifications = ce] :
        bl \in {Undefined}
               \cup ListsUpTo({Language(Str("German"), pr) :
                                  pr \in {Undefined}
                                         \cup Strs({"None", "native speaker", "C2", "fluent",
                                                    "courant"})}, 1),
        ce \in {Undefined}
               \cup ListsUpTo({Certification(Str("CFA"), d, x, u) :
                                  d \in {Null} \cup Strs({"3/2020", "Jan 2020"}),
                                  x \in {Undefined, Str("2025")},
                                  u \in {Undefined, Str("cert.org/x")}}, 1)}

PreferenceRecords ==
    {[BaseRecord EXCEPT !.desired_duration_months = d, !.desired_locations = dl,
                        !.desired_industries = di] :
        d \in {Undefined, Num(6)} \cup Strs({"6 months", "forever"}),
        dl \in ListsUpTo({Num(1)} \cup Strs({"geneva", "Mars", "usa"}),
                         MaxRecordEntries),
        di \in ListsUpTo(Strs({"banking", "xyz"}), 1)}
    \cup {[BaseRecord EXCEPT !.desired_job_types = dj] :
             dj \in {Null, Str("Full-time")}
                    \cup ListsUpTo(Strs({"Full-time", "part-time", "astronaut"}), 1)}

IndustrySkill(industry, name, level) ==
    [industry |-> industry, name |-> name, level |-> level]

\* the contact address and the industry-specific skills of the prompt's JSON
\* structure (lines 1070 and 1115)
UntouchedRecords ==
    {[BaseRecord EXCEPT !.contact_address = a, !.industry_specific_skills = sk] :
        a \in {Undefined, Null}
               \cup {[t |-> "object", city |-> Str("Zug"), country |-> c] :
                        c \in {Null} \cup Strs({"Switzerland", "Schweiz", "usa"})},
        sk \in {Undefined}
                \cup ListsUpTo({IndustrySkill(Str("Energy Trading"), Str("Hedging"), l) :
                                   l \in {Undefined} \cup Strs({"Expert", "expert", "guru"})}, 1)}

RawRecords ==
    ContactRecords \cup EducationRecords \cup DatedRecords \cup PositionedRecords
    \cup SkillRecords \cup LanguageRecords \cup PreferenceRecords \cup UntouchedRecords

\* JSON.parse of the Pass 1 response has given rawRecord (line 1655).
InitRecord ==
    /\ rawRecord \in RawRecords
    /\ now \in (IF rawRecord \in DatedRecords THEN NowValues ELSE {July2024})
    /\ extractedData = rawRecord
    /\ corrections = <<>> /\ inferences = <<>>
    /\ firstCorrected = Null
    /\ stage = "raw"
    /\ ValidatorsIdle /\ MonthsIdle /\ MergeIdle /\ JobIdle

\* Line 1661.
CallValidateAndCorrectData ==
    /\ stage = "raw"
    /\ \E result \in {validateAndCorrectData(extractedData)} :
           /\ extractedData' = result.corrected
           /\ firstCorrected' = result.corrected
           /\ corrections' = result.corrections
    /\ stage' = "validated"
    /\ UNCHANGED <<rawRecord, inferences, now, validatorVars, monthsVars, mergeVars, jobVars>>

\* validateAndCorrectData called on the record it has corrected.
CallValidateAndCorrectDataAgain ==
    /\ stage = "validated"
    /\ \E result \in {validateAndCorrectData(extractedData)} :
           /\ extractedData' = result.corrected
           /\ corrections' = result.corrections
    /\ stage' = "revalidated"
    /\ UNCHANGED <<rawRecord, firstCorrected, inferences, now, validatorVars, monthsVars,
                   mergeVars, jobVars>>

\* inferYearsOfExperience hands the list to calculateTotalWorkMonths (line 909).
ReachesTotalWorkMonths(data) ==
    /\ ENABLE_INFERENCE
    /\ Truthy(data.professional_experience)
    /\ LengthOf(data.professional_experience) # Num(0)

\* applyInferenceLogic called on the record as parsed, not on the corrected one.
CallApplyInferenceLogicOnRaw ==
    /\ stage = "validated"
    /\ \E result \in {applyInferenceLogic(rawRecord, now)} :
           /\ extractedData' = result.inferred
           /\ inferences' = result.inferences
    /\ IF ReachesTotalWorkMonths(rawRecord)
       THEN /\ experiences' = rawRecord.professional_experience
            /\ totalMonths' =
                   Num(calculateTotalWorkMonths(rawRecord.professional_experience, now))
       ELSE UNCHANGED monthsVars
    /\ stage' = "inferred"
    /\ UNCHANGED <<rawRecord, firstCorrected, corrections, now, validatorVars, mergeVars,
                   jobVars>>

\* Line 1670; experiences and totalMonths are the argument and the result of
\* the call of calculateTotalWorkMonths, when one is made.
CallApplyInferenceLogic ==
    /\ stage = "validated"
    /\ \E result \in {applyInferenceLogic(extractedData, now)} :
           /\ extractedData' = result.inferred
           /\ inferences' = result.inferences
    /\ IF ReachesTotalWorkMonths(extractedData)
       THEN /\ experiences' = extractedData.professional_experience
            /\ totalMonths' =
                   Num(calculateTotalWorkMonths(extractedData.professional_experience, now))
       ELSE UNCHANGED monthsVars
    /\ stage' = "inferred"
    /\ UNCHANGED <<rawRecord, firstCorrected, corrections, now, validatorVars, mergeVars,
                   jobVars>>

NextRecord ==
    \/ CallValidateAndCorrectData
    \/ CallValidateAndCorrectDataAgain
    \/ CallApplyInferenceLogic

SpecRecord == InitRecord /\ [][NextRecord]_vars

Validated == stage \in {"validated", "revalidated", "inferred"}

\* C1: validateAndCorrectData is idempotent: validating the corrected record
\* once more gives a corrected record equal to the first one, for every raw
\* record, also for values that went through the synonym table, the degree-type
\* guard and the date validator.
C1_ValidationIdempotent == stage = "revalidated" => extractedData = firstCorrected

\* The other values the extraction step could have given for years_of_experience.
OtherRawYears == RawYears \cup {Undefined, Null, Num(0), Num(40)}

\* What post-processing gives for years_of_experience from a raw record.
YearsAfterPostProcessing(raw, nowDate) ==
    applyInferenceLogic(validateAndCorrectData(raw).corrected, nowDate)
        .inferred.years_of_experience

EndMonth(exp, nowDate) ==
    IF exp.isCurrent = Bool(TRUE) THEN nowDate \div 2
    ELSE IF Truthy(exp.endDate) /\ exp.endDate.s # "present" THEN MonthIndex(exp.endDate.s)
    ELSE nowDate \div 2

\* C4: an entry's end is 'now' when isCurrent is true (even with an endDate),
\* its endDate when that is present and not 'present', and 'now' otherwise;
\* through validate then infer, the record with {2019-01..2020-01} and
\* {2019-07, isCurrent: true} and now = 2024-07 gives one interval of 66
\* months and years_of_experience = 5.
C4_EndResolution ==
    stage = "inferred" =>
        /\ (/\ IsArray(firstCorrected.professional_experience)
            /\ Len(firstCorrected.professional_experience.items) = 1
            /\ Truthy(firstCorrected.professional_experience.items[1].startDate))
               => LET exp == firstCorrected.professional_experience.items[1]
                      months == Max(0, EndMonth(exp, now) - MonthIndex(exp.startDate.s))
                  IN  /\ totalMonths = Num(months)
                      /\ extractedData.years_of_experience = Num(months \div 12)
        /\ (rawRecord = ExampleRecord /\ now = July2024)
               => /\ totalMonths = Num(66)
                  /\ extractedData.years_of_experience = Num(5)

\* The example record has gone through validation and inference in July 2024.
C4_Witness ==
    /\ stage = "inferred" /\ rawRecord = ExampleRecord /\ now = July2024
    /\ totalMonths = Num(66)
    /\ extractedData.years_of_experience = Num(5)

\* "Master of Accounting" as the extraction step may write it.
MasterOfAccounting ==
    Strs({"Master of Accounting", "master of accounting", " MASTER OF ACCOUNTING "})

\* C7 as stated: the categorical matcher applied to "Master of Accounting"
\* with the degree-type options does not resolve to an associate value (AA,
\* AS, AAS).
C7_MatcherAvoidsAssociate ==
    Validated /\ IsArray(rawRecord.education_history) =>
        \A i \in 1..Len(rawRecord.education_history.items) :
            rawRecord.education_history.items[i].degreeType \in MasterOfAccounting
                => fuzzyMatchToOptions(rawRecord.education_history.items[i].degreeType,
                                       DEGREE_TYPE_OPTIONS) \notin AssociateValues

\* C7: the record validator gives an education entry whose raw degreeType is
\* "Master of Accounting" the degreeType 'MSc', not an associate value: the
\* guard in validateAndCorrectData overrides the matcher's answer.
C7_ValidatorAvoidsAssociate ==
    Validated /\ IsArray(rawRecord.education_history) =>
        \A i \in 1..Len(rawRecord.education_history.items) :
            rawRecord.education_history.items[i].degreeType \in MasterOfAccounting
                => /\ firstCorrected.education_history.items[i].degreeType = Str("MSc")
                   /\ firstCorrected.education_history.items[i].degreeType
                          \notin AssociateValues

\* An entry with "Master of Accounting" has been validated to MSc.
C7_Witness ==
    /\ stage = "validated" /\ IsArray(rawRecord.education_history)
    /\ Len(rawRecord.education_history.items) = 1
    /\ rawRecord.education_history.items[1].degreeType = Str("Master of Accounting")
    /\ extractedData.education_history.items[1].degreeType = Str("MSc")

-----------------------------------------------------------------------------
(* The job handler of POST /api/v1/parse (src/index.js 1745-1930).  One      *)
(* action per await of the handler and of the functions it calls; the code   *)
(* between two awaits belongs to the action of the first.  The request has   *)
(* passed the key and body checks and was answered 202.  A database call     *)
(* whose returned error the handler never reads is one the row receives; a   *)
(* call whose error the handler branches on has both outcomes.               *)

ENABLE_PROFILE_PICTURE_EXTRACTION == TRUE

DocTypes == {"pdf", "docx", "other"}

\* error.message of the errors the try block can throw
JobFetchFailed == Str("Failed to fetch job record: Job not found")
StorageDownloadFailed == Str("Storage download failed: Object not found")
UnsupportedFileType == Str("Unsupported file type. Please upload a PDF or DOCX file.")
DocxConversionFailed == Str("Could not find file in options")
ExtractionCallFailed == Str("Request timed out.")
PdfTextFailed == Str("Invalid PDF structure")
JsonSyntaxError == Str("Unexpected token < in JSON at position 0")
RecordTypeError == Str("Cannot read properties of null (reading 'degreeType')")
DatabaseUpdateFailed == Str("Database update failed: connection refused")

\* the row of cv_parsing_jobs the caller created for the job
PendingRow == [status |-> "pending", extracted_data |-> Null, error_message |-> Null]

\* what the first-pass completion can be: the call rejects, its content is
\* not JSON, it is JSON the validators throw on, or it is a record
CompletionOutcomes == {"rejects", "notJson", "malformedRecord", "record"}

\* update({ status: 'processing' })
MarkedProcessing(row) == [row EXCEPT !.status = "processing"]

\* update({ status: 'completed', extracted_data: extractedData, ... })
MarkedCompleted(row, data) ==
    [row EXCEPT !.status = "completed", !.extracted_data = data]

\* update({ status: 'failed', error_message: error.message, ... })
MarkedFailedWithoutStatus(row, error) == [row EXCEPT !.error_message = error]

MarkedFailed(row, error) ==
    [row EXCEPT !.status = "failed", !.error_message = error]

\* every document handed on as a PDF
InputTypeAlwaysPdf(type) == "pdf"

\* prepareFileForParsing's result type for a document the type check accepts
InputType(type) == IF type = "pdf" THEN "pdf" ELSE "html"

\* the fields the handler adds to the record parseCV returned
HandlerFields == {"profile_picture_storage_path", "profile_bio", "short_summary"}

\* the record parseCV returned, with the picture path the handler adds
ExtractedWith(data, picturePath) ==
    [f \in DOMAIN data \cup HandlerFields |->
        IF f = "profile_picture_storage_path"
        THEN IF Truthy(picturePath) THEN picturePath ELSE Undefined
        ELSE IF f \in HandlerFields THEN Undefined
        ELSE data[f]]

\* the keys the handler puts into profileUpdateData, and the columns of the
\* two profile tables they go to
ProfileKeys ==
    {"profile_bio", "short_summary", "functional_expertise", "education_history",
     "professional_experience", "technical_skills"}

\* a profile row with the user's selections and nothing parsed yet
ProfileRow(expertise) ==
    [k \in ProfileKeys |-> IF k = "functional_expertise" THEN expertise ELSE Null]

\* what user_profiles.functional_expertise holds when the job starts
StoredExpertise == {Null, Arr(<<Str("Finance"), Str("Trading")>>)}

\* what the user can change the selections to while the job runs
EditedExpertise == {Arr(<<Str("Compliance")>>)}

MaxUserEdits == 1

\* the records the first pass returns to the handler
JobExperiences ==
    <<Experience(Str("Parttime Cashier"), Str("xyz"), Str("Schweiz"), Str("2020-01"),
                 Str("2021-01"), Undefined),
      Experience(Null, Null, Null, Null, Null, Undefined)>>

JobRecords ==
    {[BaseRecord EXCEPT !.professional_experience = pe, !.functional_expertise = fe] :
        pe \in {Undefined, Arr(JobExperiences)},
        fe \in {Undefined, Arr(<<Str("Sales")>>),
                Arr(<<Str("Legal"), Str("Trading"), Str("Sales")>>)}}

InitJob ==
    /\ pc = "accepted"
    /\ docType \in DocTypes
    /\ jobRow = PendingRow
    /\ thrown = Null
    /\ pass1Calls = 0
    /\ preparePc = "idle" /\ picturePc = "idle"
    /\ profilePicturePath = NoResult /\ pictureUploads = 0
    /\ pictureFailure = "none"
    /\ jobData = NoResult /\ profileWrites = <<>>
    /\ pass2Calls = 0 /\ profileUpdateData = NoResult
    /\ userProfile \in {ProfileRow(e) : e \in StoredExpertise}
    /\ talentProfile = ProfileRow(Null)
    /\ userEdits = 0
    /\ ValidatorsIdle /\ RecordIdle /\ MonthsIdle /\ MergeIdle

\* throw inside the handler's try block: control goes to the catch
Throws(error) ==
    /\ thrown' = error
    /\ pc' = "catch"

\* the handler's first update
MarkProcessing ==
    /\ pc = "accepted"
    /\ jobRow' = MarkedProcessing(jobRow)
    /\ pc' = "fetchJob"
    /\ UNCHANGED <<docType, thrown, pass1Calls, preparePc, picturePc, profilePicturePath,
                   pictureUploads, jobData, profileWrites>>
    /\ UNCHANGED <<validatorVars, recordVars, monthsVars, mergeVars, pictureFailure, profileVars>>

\* select('profile_id').single(), then both branches of Promise.all start
\* and run to their first await, the download
FetchJobRecord ==
    /\ pc = "fetchJob"
    /\ \E found \in BOOLEAN :
           IF found
           THEN /\ pc' = "promiseAll"
                /\ preparePc' = "download"
                /\ picturePc' = IF ENABLE_PROFILE_PICTURE_EXTRACTION
                                THEN "download" ELSE "done"
                /\ profilePicturePath' = IF ENABLE_PROFILE_PICTURE_EXTRACTION
                                         THEN profilePicturePath ELSE Null
                /\ UNCHANGED thrown
           ELSE /\ Throws(JobFetchFailed)
                /\ UNCHANGED <<preparePc, picturePc, profilePicturePath>>
    /\ UNCHANGED <<docType, jobRow, pass1Calls, pictureUploads, jobData, profileWrites>>
    /\ UNCHANGED <<validatorVars, recordVars, monthsVars, mergeVars, pictureFailure, profileVars>>

\* prepareFileForParsing after its download: a rejection rejects
\* Promise.all, whatever the picture branch is doing
PrepareDownload ==
    /\ pc = "promiseAll" /\ preparePc = "download"
    /\ \E error \in BOOLEAN :
           IF error
           THEN preparePc' = "rejected" /\ Throws(StorageDownloadFailed)
           ELSE IF docType = "pdf"
           THEN preparePc' = "resolved" /\ UNCHANGED <<pc, thrown>>
           ELSE IF docType = "docx"
           THEN preparePc' = "convert" /\ UNCHANGED <<pc, thrown>>
           ELSE preparePc' = "rejected" /\ Throws(UnsupportedFileType)
    /\ UNCHANGED <<docType, jobRow, pass1Calls, picturePc, profilePicturePath,
                   pictureUploads, jobData, profileWrites>>
    /\ UNCHANGED <<validatorVars, recordVars, monthsVars, mergeVars, pictureFailure, profileVars>>

\* prepareFileForParsing after mammoth.convertToHtml
PrepareConvert ==
    /\ pc = "promiseAll" /\ preparePc = "convert"
    /\ \E converted \in BOOLEAN :
           IF converted
           THEN preparePc' = "resolved" /\ UNCHANGED <<pc, thrown>>
           ELSE preparePc' = "rejected" /\ Throws(DocxConversionFailed)
    /\ UNCHANGED <<docType, jobRow, pass1Calls, picturePc, profilePicturePath,
                   pictureUploads, jobData, profileWrites>>
    /\ UNCHANGED <<validatorVars, recordVars, monthsVars, mergeVars, pictureFailure, profileVars>>

\* the picture branch returns
PictureReturns(path) ==
    /\ picturePc' = "done"
    /\ profilePicturePath' = path

\* a step of the picture branch rejects instead of being caught
PictureFailureRejects(step) ==
    /\ pictureFailure' = step
    /\ picturePc' = "rejected"
    /\ UNCHANGED profilePicturePath

\* a step of the picture branch fails: the error result or the catch of the
\* step, of extractProfilePicture or of the handler's wrapper gives null
PictureFails(step) ==
    /\ pictureFailure' = step
    /\ PictureReturns(Null)

\* extractProfilePicture after its download
PictureDownload ==
    /\ picturePc = "download"
    /\ \E error \in BOOLEAN :
           IF error
           THEN PictureFails("download")
           ELSE IF docType = "other"
           THEN PictureReturns(Null) /\ UNCHANGED pictureFailure
           ELSE picturePc' = "extract" /\ UNCHANGED <<profilePicturePath, pictureFailure>>
    /\ UNCHANGED <<pc, docType, jobRow, thrown, pass1Calls, preparePc,
                   pictureUploads, jobData, profileWrites>>
    /\ UNCHANGED <<validatorVars, recordVars, monthsVars, mergeVars, profileVars>>

\* extractProfilePicture after extractImagesFromPdf / extractImagesFromDocx
PictureExtractImages ==
    /\ picturePc = "extract"
    /\ \E outcome \in {"fails", "noImage", "images"} :
           IF outcome = "fails"
           THEN PictureFails("images")
           ELSE IF outcome = "noImage"
           THEN PictureReturns(Null) /\ UNCHANGED pictureFailure
           ELSE picturePc' = "identify" /\ UNCHANGED <<profilePicturePath, pictureFailure>>
    /\ UNCHANGED <<pc, docType, jobRow, thrown, pass1Calls, preparePc,
                   pictureUploads, jobData, profileWrites>>
    /\ UNCHANGED <<validatorVars, recordVars, monthsVars, mergeVars, profileVars>>

\* extractProfilePicture after identifyProfilePicture
PictureIdentify ==
    /\ picturePc = "identify"
    /\ \E outcome \in {"fails", "timeout", "unsure", "confident"} :
           IF outcome = "fails"
           THEN PictureFails("vision")
           ELSE IF outcome = "timeout"
           THEN PictureFails("visionTimeout")
           ELSE IF outcome = "unsure"
           THEN PictureReturns(Null) /\ UNCHANGED pictureFailure
           ELSE picturePc' = "upload" /\ UNCHANGED <<profilePicturePath, pictureFailure>>
    /\ UNCHANGED <<pc, docType, jobRow, thrown, pass1Calls, preparePc,
                   pictureUploads, jobData, profileWrites>>
    /\ UNCHANGED <<validatorVars, recordVars, monthsVars, mergeVars, profileVars>>

\* extractProfilePicture after uploadProfilePictureToStorage
PictureUpload ==
    /\ picturePc = "upload"
    /\ \E error \in BOOLEAN :
           IF error
           THEN PictureFails("upload") /\ UNCHANGED pictureUploads
           ELSE /\ PictureReturns(Str("profile/picture.jpg"))
                /\ pictureUploads' = pictureUploads + 1
                /\ UNCHANGED pictureFailure
    /\ UNCHANGED <<pc, docType, jobRow, thrown, pass1Calls, preparePc,
                   jobData, profileWrites>>
    /\ UNCHANGED <<validatorVars, recordVars, monthsVars, mergeVars, profileVars>>

\* the handler goes on when prepareFileForParsing alone has resolved
PromiseAllResolvesOnPrepare ==
    /\ pc = "promiseAll" /\ preparePc = "resolved"
    /\ pc' = "firstPass"
    /\ UNCHANGED <<docType, jobRow, thrown, pass1Calls, preparePc, picturePc,
                   profilePicturePath, pictureUploads, pictureFailure, jobData,
                   profileWrites>>
    /\ UNCHANGED <<validatorVars, recordVars, monthsVars, mergeVars, profileVars>>

\* Promise.all resolves; parseCV checks its input and sends the first call
PromiseAllResolves ==
    /\ pc = "promiseAll" /\ preparePc = "resolved" /\ picturePc = "done"
    /\ pc' = "firstPass"
    /\ UNCHANGED <<docType, jobRow, thrown, pass1Calls, preparePc, picturePc,
                   profilePicturePath, pictureUploads, pictureFailure, jobData,
             profileWrites>>
    /\ UNCHANGED <<validatorVars, recordVars, monthsVars, mergeVars, pictureFailure, profileVars>>

\* JSON.parse of the completion (line 1655): a syntax error, a value the
\* validator throws on, or the record post-processing starts from
ParsesCompletion(outcome) ==
    IF outcome = "notJson"
    THEN Throws(JsonSyntaxError) /\ UNCHANGED recordVars
    ELSE IF outcome = "malformedRecord"
    THEN Throws(RecordTypeError) /\ UNCHANGED recordVars
    ELSE /\ rawRecord' \in JobRecords
         /\ extractedData' = rawRecord'
         /\ stage' = "raw"
         /\ now' = July2024
         /\ pc' = "postProcess"
         /\ UNCHANGED <<thrown, corrections, firstCorrected, inferences>>

\* parseCV after its first chat.completions.create
FirstPass ==
    /\ pc = "firstPass"
    /\ pass1Calls' = pass1Calls + 1
    /\ \E outcome \in CompletionOutcomes :
           IF outcome = "rejects"
           THEN IF InputType(docType) = "pdf"
                THEN pc' = "fallbackText" /\ UNCHANGED <<thrown, recordVars>>
                ELSE Throws(ExtractionCallFailed) /\ UNCHANGED recordVars
           ELSE ParsesCompletion(outcome)
    /\ UNCHANGED <<docType, jobRow, preparePc, picturePc, profilePicturePath,
                   pictureUploads, jobData, profileWrites>>
    /\ UNCHANGED <<validatorVars, monthsVars, mergeVars, pictureFailure, profileVars>>

\* parseCV's catch of the native PDF call, after pdf(input.buffer)
FallbackText ==
    /\ pc = "fallbackText"
    /\ \E extracted \in BOOLEAN :
           IF extracted
           THEN pc' = "fallbackPass" /\ UNCHANGED thrown
           ELSE Throws(PdfTextFailed)
    /\ UNCHANGED <<docType, jobRow, pass1Calls, preparePc, picturePc, profilePicturePath,
                   pictureUploads, jobData, profileWrites>>
    /\ UNCHANGED <<validatorVars, recordVars, monthsVars, mergeVars, pictureFailure, profileVars>>

\* parseCV after the fallback's chat.completions.create
FallbackPass ==
    /\ pc = "fallbackPass"
    /\ pass1Calls' = pass1Calls + 1
    /\ \E outcome \in CompletionOutcomes :
           IF outcome = "rejects"
           THEN Throws(ExtractionCallFailed) /\ UNCHANGED recordVars
           ELSE ParsesCompletion(outcome)
    /\ UNCHANGED <<docType, jobRow, preparePc, picturePc, profilePicturePath,
                   pictureUploads, jobData, profileWrites>>
    /\ UNCHANGED <<validatorVars, monthsVars, mergeVars, pictureFailure, profileVars>>

ENABLE_TWO_PASS == TRUE

\* cvTextForSecondPass is set for a text input and by the PDF fallback
HasTextForSecondPass == InputType(docType) # "pdf" \/ pass1Calls = 2

\* the fields of line 1686, none
uncertainFields == <<>>

\* parseCV from the two-pass block to its return (lines 1681-1726): one call
\* for each uncertain field; the handler adds the picture path
ParseCVReturns ==
    /\ pc = "postProcess" /\ stage = "inferred"
    /\ pass2Calls' = IF ENABLE_TWO_PASS /\ HasTextForSecondPass
                     THEN pass2Calls + Len(uncertainFields)
                     ELSE pass2Calls
    /\ jobData' = ExtractedWith(extractedData, profilePicturePath)
    /\ pc' = "bio"
    /\ UNCHANGED <<docType, jobRow, thrown, pass1Calls, preparePc, picturePc,
                   profilePicturePath, pictureUploads, profileWrites>>
    /\ UNCHANGED <<validatorVars, recordVars, monthsVars, mergeVars, pictureFailure,
                   profileUpdateData, userProfile, talentProfile, userEdits>>

\* the handler after generateProfileBio, which returns null on any failure
GenerateProfileBio ==
    /\ pc = "bio"
    /\ \E bio \in {Null, Str("An experienced professional.")} :
           jobData' = IF bio = Null THEN jobData
                      ELSE [jobData EXCEPT !.profile_bio = bio]
    /\ pc' = "summary"
    /\ UNCHANGED <<docType, jobRow, thrown, pass1Calls, preparePc, picturePc,
                   profilePicturePath, pictureUploads, profileWrites>>
    /\ UNCHANGED <<validatorVars, recordVars, monthsVars, mergeVars, pictureFailure, profileVars>>

\* the handler after generateShortSummary, which returns null on any failure
GenerateShortSummary ==
    /\ pc = "summary"
    /\ \E summary \in {Null, Str("Senior analyst.")} :
           jobData' = IF summary = Null THEN jobData
                      ELSE [jobData EXCEPT !.short_summary = summary]
    /\ pc' = "complete"
    /\ UNCHANGED <<docType, jobRow, thrown, pass1Calls, preparePc, picturePc,
                   profilePicturePath, pictureUploads, profileWrites>>
    /\ UNCHANGED <<validatorVars, recordVars, monthsVars, mergeVars, pictureFailure, profileVars>>

\* COALESCE of a value taken from extracted_data with ->> and the column
Coalesce(value, column) == IF value \in {Undefined, Null} THEN column ELSE value

\* an entry as it is, companyName included
KeepCompanyName(entry) == entry

\* an entry without its companyName
StripCompanyName(entry) == [f \in DOMAIN entry \ {"companyName"} |-> entry[f]]

\* the entries of a list without their companyName
StripCompanyNames(list) ==
    Arr([i \in 1..Len(list.items) |-> StripCompanyName(list.items[i])])

\* sync_parsed_cv_data_to_profile on user_profiles
SyncUserProfile(row, data) ==
    [row EXCEPT !.education_history = Coalesce(data.education_history, @),
                !.professional_experience = Coalesce(data.professional_experience, @),
                !.technical_skills = Coalesce(data.technical_skills, @),
                !.profile_bio = Coalesce(data.profile_bio, @)]

\* sync_parsed_cv_data_to_profile on talent_profiles; jsonb_agg of no entry
\* is NULL
SyncTalentProfile(row, data) ==
    [row EXCEPT !.education_history = Coalesce(data.education_history, @),
                !.professional_experience =
                    IF IsArray(data.professional_experience)
                       /\ data.professional_experience.items # <<>>
                    THEN StripCompanyNames(data.professional_experience)
                    ELSE @,
                !.technical_skills = Coalesce(data.technical_skills, @),
                !.profile_bio = Coalesce(data.profile_bio, @)]

\* the update to 'completed' with trigger_sync_parsed_cv_data, and the throw
\* on its updateError
MarkCompleted ==
    /\ pc = "complete"
    /\ \E updateError \in BOOLEAN :
           IF updateError
           THEN Throws(DatabaseUpdateFailed)
                /\ UNCHANGED <<jobRow, userProfile, talentProfile>>
           ELSE /\ jobRow' = MarkedCompleted(jobRow, jobData)
                /\ userProfile' = SyncUserProfile(userProfile, jobData)
                /\ talentProfile' = SyncTalentProfile(talentProfile, jobData)
                /\ pc' = "profileData"
                /\ UNCHANGED thrown
    /\ UNCHANGED <<docType, pass1Calls, preparePc, picturePc, profilePicturePath,
                   pictureUploads, jobData, profileWrites>>
    /\ UNCHANGED <<validatorVars, recordVars, monthsVars, mergeVars, pictureFailure,
                   pass2Calls, profileUpdateData, userEdits>>

\* profileUpdateData with no key
NoKeys == [k \in ProfileKeys |-> Undefined]

\* a key is set when the record's value is truthy
KeyOf(value) == IF Truthy(value) THEN value ELSE Undefined

\* lines 1832-1837
WithTexts(data) ==
    [NoKeys EXCEPT !.profile_bio = KeyOf(data.profile_bio),
                   !.short_summary = KeyOf(data.short_summary)]

\* lines 1873-1881
WithLists(update, data) ==
    [update EXCEPT !.education_history = KeyOf(data.education_history),
                   !.professional_experience = KeyOf(data.professional_experience),
                   !.technical_skills = KeyOf(data.technical_skills)]

\* the functional_expertise key, set for a list that is not empty
WithExpertise(update, list) ==
    IF Len(list) > 0 THEN [update EXCEPT !.functional_expertise = Arr(list)] ELSE update

\* Object.keys(profileUpdateData).length > 0
HasKeys(update) == \E k \in ProfileKeys : update[k] # Undefined

\* the test of line 1841
HasParsedExpertise(data) ==
    /\ Truthy(data.functional_expertise)
    /\ LengthOf(data.functional_expertise) \notin {Undefined, Num(0)}

\* the handler from line 1830 to its next await: the read of the existing
\* profile, the update of user_profiles, or the end
BuildProfileUpdateData ==
    /\ pc = "profileData"
    /\ IF HasParsedExpertise(jobData)
       THEN /\ profileUpdateData' = WithTexts(jobData)
            /\ pc' = "fetchProfile"
       ELSE /\ profileUpdateData' = WithLists(WithTexts(jobData), jobData)
            /\ pc' = IF HasKeys(profileUpdateData') THEN "userProfile" ELSE "done"
    /\ UNCHANGED <<docType, jobRow, thrown, pass1Calls, preparePc, picturePc,
                   profilePicturePath, pictureUploads, jobData, profileWrites>>
    /\ UNCHANGED <<validatorVars, recordVars, monthsVars, mergeVars, pictureFailure,
                   pass2Calls, userProfile, talentProfile, userEdits>>

\* existingProfile.functional_expertise || []
OrEmptyList(value) == IF Truthy(value) THEN value ELSE Arr(<<>>)

\* the handler after the select of the existing profile (lines 1848-1881):
\* the merge with the selections read, or the parser's valid values alone
FetchExistingProfile ==
    /\ pc = "fetchProfile"
    /\ \E fetchError \in BOOLEAN :
           IF ~fetchError
           THEN /\ userExpertise' = OrEmptyList(userProfile.functional_expertise)
                /\ parserExpertise' = jobData.functional_expertise
                /\ mergedExpertise' =
                       Arr(mergeFunctionalExpertise(userExpertise', parserExpertise'))
                /\ profileUpdateData' =
                       WithLists(WithExpertise(profileUpdateData, mergedExpertise'.items),
                                 jobData)
           ELSE /\ profileUpdateData' =
                       WithLists(WithExpertise(profileUpdateData,
                                     validateFunctionalExpertise(jobData.functional_expertise)),
                                 jobData)
                /\ UNCHANGED mergeVars
    /\ pc' = IF HasKeys(profileUpdateData') THEN "userProfile" ELSE "done"
    /\ UNCHANGED <<docType, jobRow, thrown, pass1Calls, preparePc, picturePc,
                   profilePicturePath, pictureUploads, jobData, profileWrites>>
    /\ UNCHANGED <<validatorVars, recordVars, monthsVars, pictureFailure,
                   pass2Calls, userProfile, talentProfile, userEdits>>

\* update(data) of a row: the columns of the keys that are set
Updated(row, data) ==
    [k \in ProfileKeys |-> IF data[k] # Undefined THEN data[k] ELSE row[k]]

\* the update of user_profiles, with its error thrown to the handler's catch
UpdateUserProfileThrowing ==
    /\ pc = "userProfile"
    /\ \E profileUpdateError \in BOOLEAN :
           IF profileUpdateError
           THEN Throws(DatabaseUpdateFailed) /\ UNCHANGED <<profileWrites, userProfile>>
           ELSE /\ profileWrites' = Append(profileWrites, "user_profiles")
                /\ userProfile' = Updated(userProfile, profileUpdateData)
                /\ pc' = "talentProfile"
                /\ UNCHANGED thrown
    /\ UNCHANGED <<docType, jobRow, pass1Calls, preparePc, picturePc,
                   profilePicturePath, pictureUploads, jobData>>
    /\ UNCHANGED <<validatorVars, recordVars, monthsVars, mergeVars, pictureFailure,
                   pass2Calls, profileUpdateData, talentProfile, userEdits>>

\* the update of user_profiles; its error is logged only
UpdateUserProfile ==
    /\ pc = "userProfile"
    /\ \E profileUpdateError \in BOOLEAN :
           IF profileUpdateError
           THEN UNCHANGED <<profileWrites, userProfile>>
           ELSE /\ profileWrites' = Append(profileWrites, "user_profiles")
                /\ userProfile' = Updated(userProfile, profileUpdateData)
    /\ pc' = "talentProfile"
    /\ UNCHANGED <<docType, jobRow, thrown, pass1Calls, preparePc, picturePc,
                   profilePicturePath, pictureUploads, jobData>>
    /\ UNCHANGED <<validatorVars, recordVars, monthsVars, mergeVars, pictureFailure,
                   pass2Calls, profileUpdateData, talentProfile, userEdits>>

\* displayData (lines 1897-1905)
DisplayData(update) ==
    IF Truthy(update.professional_experience) /\ IsArray(update.professional_experience)
    THEN [update EXCEPT !.professional_experience = StripCompanyNames(@)]
    ELSE update

\* the update of talent_profiles; its error is logged only
UpdateTalentProfile ==
    /\ pc = "talentProfile"
    /\ \E displayUpdateError \in BOOLEAN :
           IF displayUpdateError
           THEN UNCHANGED <<profileWrites, talentProfile>>
           ELSE /\ profileWrites' = Append(profileWrites, "talent_profiles")
                /\ talentProfile' = Updated(talentProfile, DisplayData(profileUpdateData))
    /\ pc' = "done"
    /\ UNCHANGED <<docType, jobRow, thrown, pass1Calls, preparePc, picturePc,
                   profilePicturePath, pictureUploads, jobData>>
    /\ UNCHANGED <<validatorVars, recordVars, monthsVars, mergeVars, pictureFailure,
                   pass2Calls, profileUpdateData, userProfile, userEdits>>

\* the user changes the selections of the profile while the job runs
UserEditsExpertise ==
    /\ pc \notin {"idle", "done"}
    /\ userEdits < MaxUserEdits
    /\ userEdits' = userEdits + 1
    /\ \E selections \in EditedExpertise :
           userProfile' = [userProfile EXCEPT !.functional_expertise = selections]
    /\ UNCHANGED <<pc, docType, jobRow, thrown, pass1Calls, preparePc, picturePc,
                   profilePicturePath, pictureUploads, pictureFailure, jobData,
                   profileWrites, pass2Calls, profileUpdateData, talentProfile>>
    /\ UNCHANGED <<validatorVars, recordVars, monthsVars, mergeVars>>

\* the handler's catch block
CatchMarksFailed ==
    /\ pc = "catch"
    /\ jobRow' = MarkedFailed(jobRow, thrown)
    /\ pc' = "done"
    /\ UNCHANGED <<docType, thrown, pass1Calls, preparePc, picturePc, profilePicturePath,
                   pictureUploads, jobData, profileWrites>>
    /\ UNCHANGED <<validatorVars, recordVars, monthsVars, mergeVars, pictureFailure, profileVars>>

NextJob ==
    \/ MarkProcessing
    \/ FetchJobRecord
    \/ PrepareDownload
    \/ PrepareConvert
    \/ PictureDownload
    \/ PictureExtractImages
    \/ PictureIdentify
    \/ PictureUpload
    \/ PromiseAllResolves
    \/ FirstPass
    \/ FallbackText
    \/ FallbackPass
    \/ CallValidateAndCorrectData
    \/ CallApplyInferenceLogic
    \/ ParseCVReturns
    \/ GenerateProfileBio
    \/ GenerateShortSummary
    \/ MarkCompleted
    \/ BuildProfileUpdateData
    \/ FetchExistingProfile
    \/ UpdateUserProfile
    \/ UpdateTalentProfile
    \/ CatchMarksFailed
    \/ UserEditsExpertise

SpecJob == InitJob /\ [][NextJob]_vars

\* the fatal errors of the job: the response of the first pass is not JSON,
\* the document is neither PDF nor DOCX, the download of the document fails
FatalErrors == {JsonSyntaxError, UnsupportedFileType, StorageDownloadFailed}

HandlerErrors ==
    {JobFetchFailed, StorageDownloadFailed, UnsupportedFileType, DocxConversionFailed,
     ExtractionCallFailed, PdfTextFailed, JsonSyntaxError, RecordTypeError,
     DatabaseUpdateFailed}

\* C11: a failed step of the picture branch (download, image extraction,
\* vision call, its timeout, upload) makes the branch return null; the error
\* of a failed job is one of the handler's own, and a job that completes
\* after it has no profile_picture_storage_path.
C11_PictureFailureIsolated ==
    pictureFailure # "none" =>
        /\ picturePc = "done" /\ profilePicturePath = Null
        /\ thrown \in {Null} \cup HandlerErrors
        /\ jobData # NoResult => jobData.profile_picture_storage_path = Undefined
        /\ jobRow.status = "completed" =>
               jobRow.extracted_data.profile_picture_storage_path = Undefined

\* The vision call of a job timed out, the first pass was made and the job
\* completed without a picture path.
C11_Witness ==
    /\ pictureFailure = "visionTimeout" /\ pass1Calls = 1
    /\ pc = "done" /\ jobRow.status = "completed"
    /\ jobRow.extracted_data.profile_picture_storage_path = Undefined

\* every element of a list is a value of the option set
OnlyMembers(list, optionsArray) ==
    IsArray(list) => \A i \in 1..Len(list.items) : list.items[i] \in Members(optionsArray)

\* C13: after validateAndCorrectData the lists desired_job_types,
\* desired_locations and desired_industries hold only values of their option
\* sets: an element the matcher does not resolve is dropped.
C13_PreferenceListsClosed ==
    Validated =>
        /\ OnlyMembers(firstCorrected.desired_job_types, JOB_TYPE_OPTIONS)
        /\ OnlyMembers(firstCorrected.desired_locations, LOCATION_OPTIONS)
        /\ OnlyMembers(firstCorrected.desired_industries, INDUSTRY_PREFERENCE_OPTIONS)

\* the fields of the record whose corrected value differs from the raw one
ChangedFields(raw, corrected) == {f \in DOMAIN raw : corrected[f] # raw[f]}

\* C15: the correction log of validateAndCorrectData has an entry for every
\* field-level change: a corrected record that differs from the raw record in
\* n fields comes with at least n log entries.
C15_EveryChangeLogged ==
    stage = "validated" =>
        Cardinality(ChangedFields(rawRecord, extractedData)) <= Len(corrections)

\* the value is absent, null or a value of the option set
EnumOrNull(v, optionsArray) == v \in {Null, Undefined} \cup Members(optionsArray)

\* every entry of a list has the field in its option set, absent or null
EnumInEntries(list, field, optionsArray) ==
    IsArray(list) =>
        \A i \in 1..Len(list.items) :
            field \in DOMAIN list.items[i] => EnumOrNull(list.items[i][field], optionsArray)

\* C18: after validateAndCorrectData every enum-shaped field is a value of
\* its option set, null or absent: degreeType, generalField and country of
\* the education entries, positionType and country of the experience entries,
\* level of the technical, soft and industry-specific skills, proficiency of
\* the languages, desired_duration_months, country of the contact address.
C18_EnumFieldsClosed ==
    Validated =>
        /\ EnumInEntries(firstCorrected.education_history, "degreeType", DEGREE_TYPE_OPTIONS)
        /\ EnumInEntries(firstCorrected.education_history, "generalField",
                         GENERAL_FIELD_OPTIONS)
        /\ EnumInEntries(firstCorrected.education_history, "country", COUNTRY_OPTIONS)
        /\ EnumInEntries(firstCorrected.professional_experience, "positionType",
                         POSITION_TYPE_OPTIONS)
        /\ EnumInEntries(firstCorrected.professional_experience, "country", COUNTRY_OPTIONS)
        /\ EnumInEntries(firstCorrected.technical_skills, "level", SKILL_PROFICIENCY_OPTIONS)
        /\ EnumInEntries(firstCorrected.soft_skills, "level", SKILL_PROFICIENCY_OPTIONS)
        /\ EnumInEntries(firstCorrected.industry_specific_skills, "level",
                         SKILL_PROFICIENCY_OPTIONS)
        /\ EnumInEntries(firstCorrected.base_languages, "proficiency",
                         LANGUAGE_PROFICIENCY_OPTIONS)
        /\ EnumOrNull(firstCorrected.desired_duration_months, DURATION_OPTIONS)
        /\ firstCorrected.contact_address.t = "object" =>
               EnumOrNull(firstCorrected.contact_address.country, COUNTRY_OPTIONS)

\* the raw degreeType is a string with a master's-level keyword
HasMasterKeyword(degreeType) ==
    IsStr(degreeType) /\ \E kw \in masterKeywords : Includes(ToLowerCase(degreeType.s), kw)

\* C19: an education entry whose raw degreeType has a master's-level keyword
\* never ends as AA, AS or AAS; when the matcher resolved it to one of them
\* the corrected degreeType is 'MSc' and the log has the correction.
C19_MasterNeverAssociate ==
    stage = "validated" /\ IsArray(rawRecord.education_history) =>
        \A i \in 1..Len(rawRecord.education_history.items) :
            HasMasterKeyword(rawRecord.education_history.items[i].degreeType) =>
                /\ extractedData.education_history.items[i].degreeType \notin AssociateValues
                /\ \A a \in AssociateValues :
                       fuzzyMatchToOptions(rawRecord.education_history.items[i].degreeType,
                                           DEGREE_TYPE_OPTIONS) = a
                           => /\ extractedData.education_history.items[i].degreeType
                                     = Str("MSc")
                              /\ \E k \in 1..Len(corrections) :
                                     corrections[k] = "Corrected degreeType from " \o a.s
                                                          \o " to MSc (master-level degree)"

\* "MBA Class", which the matcher resolves to AS through "as" in "class",
\* has been validated to MSc with its log entry.
C19_Witness ==
    /\ stage = "validated" /\ IsArray(rawRecord.education_history)
    /\ Len(rawRecord.education_history.items) = 1
    /\ rawRecord.education_history.items[1].degreeType = Str("MBA Class")
    /\ fuzzyMatchToOptions(Str("MBA Class"), DEGREE_TYPE_OPTIONS) = Str("AS")
    /\ extractedData.education_history.items[1].degreeType = Str("MSc")
    /\ corrections = <<"Corrected degreeType from AS to MSc (master-level degree)">>

\* the distinct non-empty countries of the entries of a list
DistinctCountries(list) ==
    IF IsArray(list)
    THEN {list.items[i].country : i \in {j \in 1..Len(list.items) :
                                            Truthy(list.items[j].country)}}
    ELSE {}

\* desired_locations is absent or an empty list
NoLocations(locations) == locations \in {Undefined, Null, Arr(<<>>)}

\* C20: applyInferenceLogic sets an absent or empty desired_locations to the
\* one-element list of the country when the experience entries have exactly
\* one distinct non-empty country, leaves it as it is with none or several,
\* and never changes a non-empty desired_locations.
C20_DesiredLocationsInference ==
    stage = "inferred" =>
        IF NoLocations(firstCorrected.desired_locations)
        THEN IF Cardinality(DistinctCountries(firstCorrected.professional_experience)) = 1
             THEN \E country \in DistinctCountries(firstCorrected.professional_experience) :
                      extractedData.desired_locations = Arr(<<country>>)
             ELSE extractedData.desired_locations = firstCorrected.desired_locations
        ELSE extractedData.desired_locations = firstCorrected.desired_locations

\* Two entries in the same country gave that country as the only desired
\* location.
C20_Witness ==
    /\ stage = "inferred" /\ firstCorrected.desired_locations = Arr(<<>>)
    /\ IsArray(firstCorrected.professional_experience)
    /\ Len(firstCorrected.professional_experience.items) = 2
    /\ DistinctCountries(firstCorrected.professional_experience) = {Str("Switzerland")}
    /\ extractedData.desired_locations = Arr(<<Str("Switzerland")>>)

\* the title has one of the keywords, in any letter case
TitleHas(title, keywords) ==
    IsStr(title) /\ \E kw \in keywords : Includes(ToLowerCase(title.s), kw)

\* the cascade as the claim words it: the first keyword group found in the
\* title decides, and Full-time is the default
CascadeAsStated(title) ==
    IF TitleHas(title, {"intern"}) THEN Str("Internship")
    ELSE IF TitleHas(title, {"freelance", "contractor", "consultant"})
    THEN Str("Freelance / Contractor")
    ELSE IF TitleHas(title, {"part-time", "part time"}) THEN Str("Part-time")
    ELSE IF TitleHas(title, {"volunteer"}) THEN Str("Volunteer")
    ELSE Str("Full-time")

\* the cascade with 'parttime' in the part-time group, for a title that is
\* there; no title, no position type
CascadeOnTitle(title) ==
    IF ~Truthy(title) THEN Null
    ELSE IF TitleHas(title, {"intern"}) THEN Str("Internship")
    ELSE IF TitleHas(title, {"freelance", "contractor", "consultant"})
    THEN Str("Freelance / Contractor")
    ELSE IF TitleHas(title, {"part-time", "part time", "parttime"}) THEN Str("Part-time")
    ELSE IF TitleHas(title, {"volunteer"}) THEN Str("Volunteer")
    ELSE Str("Full-time")

\* the entries before and after applyInferenceLogic
InferredEntries ==
    IF stage = "inferred" /\ IsArray(firstCorrected.professional_experience)
    THEN 1..Len(firstCorrected.professional_experience.items)
    ELSE {}

EntryBefore(i) == firstCorrected.professional_experience.items[i]
EntryAfter(i) == extractedData.professional_experience.items[i]

\* C21 as stated: every entry without a positionType gets the cascade's
\* answer for its title, Full-time when no keyword is found; an entry with a
\* positionType is unchanged.
C21_CascadeAsStated ==
    \A i \in InferredEntries :
        IF Truthy(EntryBefore(i).positionType)
        THEN EntryAfter(i) = EntryBefore(i)
        ELSE EntryAfter(i).positionType = CascadeAsStated(EntryBefore(i).positionName)

\* C21: an entry without a positionType and with a position title gets the
\* first hit of intern, freelance/contractor/consultant, part-time/part
\* time/parttime, volunteer, else Full-time; one without a title gets null;
\* an entry with a positionType is unchanged.
C21_PositionTypeCascade ==
    \A i \in InferredEntries :
        IF Truthy(EntryBefore(i).positionType)
        THEN EntryAfter(i) = EntryBefore(i)
        ELSE EntryAfter(i) =
                 [EntryBefore(i) EXCEPT !.positionType = CascadeOnTitle(EntryBefore(i).positionName)]

\* "Part-time Volunteer" without a positionType has become Part-time, and an
\* entry next to it without a title has none.
C21_Witness ==
    /\ Cardinality(InferredEntries) = 2
    /\ EntryBefore(1).positionName = Str("Part-time Volunteer")
    /\ EntryBefore(1).positionType = Null /\ EntryAfter(1).positionType = Str("Part-time")
    /\ EntryBefore(2).positionName = Null
    /\ EntryBefore(2).positionType = Null /\ EntryAfter(2).positionType = Null

\* a step of parseCV's post-processing: the record parsed, then the
\* validator's corrected record of it, then the inference engine's record of
\* the corrected one
PostProcessingStep ==
    \/ /\ stage = "idle" /\ stage' = "raw"
       /\ extractedData' = rawRecord'
    \/ /\ stage = "raw" /\ stage' = "validated"
       /\ extractedData' = validateAndCorrectData(rawRecord).corrected
    \/ /\ stage = "validated" /\ stage' = "inferred"
       /\ extractedData' =
              applyInferenceLogic(validateAndCorrectData(rawRecord).corrected, now).inferred

\* C22: in parseCV the record is parsed, then validated, then handed to the
\* inference engine, which gets the validator's corrected record; a second-pass
\* call is made, and parseCV returns, only after inference.
C22_FixedOrder ==
    [][/\ stage' # stage => PostProcessingStep
       /\ pass2Calls' # pass2Calls => stage = "inferred"
       /\ jobData' # jobData /\ jobData = NoResult =>
              /\ stage = "inferred"
              /\ \A f \in DOMAIN extractedData : jobData'[f] = extractedData[f]]_vars

\* parseCV has returned after the PDF fallback, with a record that inference
\* on the parsed record would not have given.
C22_Witness ==
    /\ pc = "bio" /\ stage = "inferred" /\ pass1Calls = 2
    /\ extractedData # applyInferenceLogic(rawRecord, now).inferred
    /\ \A f \in DOMAIN extractedData : jobData[f] = extractedData[f]

\* C23 as stated: a job makes at most one first-pass extraction call.
C23_ExactlyOnce == pass1Calls <= 1

\* C23: a job makes at most two first-pass extraction calls, the second one
\* only for a PDF whose native call was rejected; a rejected call of a text
\* input, and a rejected fallback call, end the job with no further call.
C23_OneCallAndOneFallback ==
    /\ pass1Calls \in 0..2
    /\ pass1Calls = 2 => docType = "pdf"
    /\ thrown = ExtractionCallFailed => pass1Calls = (IF docType = "pdf" THEN 2 ELSE 1)
    /\ pc = "fallbackPass" => pass1Calls = 1 /\ docType = "pdf"

\* The native call of a PDF job and its fallback call were both rejected, and
\* the job has ended as failed.
C23_Witness ==
    /\ docType = "pdf" /\ pass1Calls = 2 /\ thrown = ExtractionCallFailed
    /\ pc = "done" /\ jobRow.status = "failed"

\* C24: when parseCV is about to send its first extraction call, and ever
\* after, prepareFileForParsing has resolved and extractProfilePicture has
\* returned, whichever of the two finished first.
C24_JoinedBeforeFirstCall ==
    (pc = "firstPass" \/ pass1Calls > 0) =>
        /\ preparePc = "resolved"
        /\ picturePc = "done" /\ profilePicturePath # NoResult

\* A DOCX was converted, a picture was uploaded, and the first call is about
\* to be sent.
C24_Witness ==
    /\ pc = "firstPass" /\ pass1Calls = 0 /\ docType = "docx"
    /\ preparePc = "resolved" /\ picturePc = "done"
    /\ pictureUploads = 1 /\ IsStr(profilePicturePath)

\* an entry with no start date, or whose start is after its resolved end
LeftOut(exp, nowDate) ==
    \/ ~Truthy(exp.startDate)
    \/ /\ NewDate(exp.startDate.s) # NaN /\ ResolveEnd(exp, nowDate) # NaN
       /\ NewDate(exp.startDate.s) > ResolveEnd(exp, nowDate)

KeptIn(exp) == ~LeftOut(exp, now)

\* the validated experience list applyInferenceLogic was called on
ValidatedExperience ==
    IF stage = "inferred" /\ IsArray(firstCorrected.professional_experience)
    THEN firstCorrected.professional_experience.items
    ELSE <<>>

\* C25: an entry with no start date or with its start after its resolved end
\* adds nothing to calculateTotalWorkMonths: the total is the total of the
\* list without these entries, and 0 when every entry is one; the call returns
\* a number, and the record applyInferenceLogic returns has every entry of
\* the list, with the dates it had.
C25_LeftOutOfDurationOnly ==
    ValidatedExperience # <<>> =>
        /\ totalMonths =
               Num(calculateTotalWorkMonths(Arr(SelectSeq(ValidatedExperience, KeptIn)), now))
        /\ SelectSeq(ValidatedExperience, KeptIn) = <<>> => totalMonths = Num(0)
        /\ Len(extractedData.professional_experience.items) = Len(ValidatedExperience)
        /\ \A i \in 1..Len(ValidatedExperience) :
               extractedData.professional_experience.items[i] =
                   InferEntryPositionType(ValidatedExperience[i])

\* An entry that is counted and an entry that starts after its end: 12
\* months, and applyInferenceLogic returns both entries.
C25_Witness ==
    /\ Len(ValidatedExperience) = 2
    /\ KeptIn(ValidatedExperience[1])
    /\ ValidatedExperience[2].startDate = Str("2021-01")
    /\ ValidatedExperience[2].endDate = Str("2020-01")
    /\ totalMonths = Num(12)
    /\ Len(extractedData.professional_experience.items) = 2
    /\ extractedData.professional_experience.items[2].startDate = Str("2021-01")

PreparationErrors == {StorageDownloadFailed, UnsupportedFileType, DocxConversionFailed}

\* C27: once a job has been marked failed because prepareFileForParsing
\* rejected, the picture branch of the job uploads nothing.
C27_NoUploadAfterFailure ==
    [][jobRow.status = "failed" /\ thrown \in PreparationErrors
           => pictureUploads' = pictureUploads]_vars

\* every element of a is in b, in the order of a
RECURSIVE InOrderWithin(_, _)
InOrderWithin(a, b) ==
    IF a = <<>> THEN TRUE
    ELSE IF b = <<>> THEN FALSE
    ELSE IF Head(a) = Head(b) THEN InOrderWithin(Tail(a), Tail(b))
    ELSE InOrderWithin(a, Tail(b))

\* the update of user_profiles is applied and sets functional_expertise
WritesExpertise ==
    /\ pc = "userProfile" /\ profileWrites' # profileWrites
    /\ profileUpdateData.functional_expertise # Undefined

\* C28: when the user has not touched the profile during the job, the list a
\* job writes to user_profiles.functional_expertise has every valid selection
\* the row held, in their order, whether the read of the row succeeded or not.
C28_WriteKeepsSelections ==
    [][WritesExpertise /\ userEdits = 0 =>
           InOrderWithin(validateFunctionalExpertise(userProfile.functional_expertise),
                         userProfile'.functional_expertise.items)]_vars

\* C29: when the job has read the selections and merged them, the list its
\* update leaves in user_profiles.functional_expertise has every valid
\* selection the row holds at the time of the update, the ones the user set
\* after the read included.
C29_NoLostUpdate ==
    [][WritesExpertise /\ mergedExpertise # NoResult =>
           InOrderWithin(validateFunctionalExpertise(userProfile.functional_expertise),
                         userProfile'.functional_expertise.items)]_vars

\* the professional_experience entries of a profile row
EntriesOf(row) ==
    IF IsArray(row.professional_experience) THEN row.professional_experience.items
    ELSE <<>>

\* C30: the professional_experience entries in talent_profiles, written by
\* the trigger or by the handler, have no companyName; they are the entries
\* in user_profiles, which have it, and every other field is the same.
C30_CompanyNameStripped ==
    /\ Len(EntriesOf(talentProfile)) = Len(EntriesOf(userProfile))
    /\ \A i \in 1..Len(EntriesOf(talentProfile)) :
           /\ "companyName" \notin DOMAIN EntriesOf(talentProfile)[i]
           /\ "companyName" \in DOMAIN EntriesOf(userProfile)[i]
           /\ DOMAIN EntriesOf(talentProfile)[i] =
                  DOMAIN EntriesOf(userProfile)[i] \ {"companyName"}
           /\ \A f \in DOMAIN EntriesOf(talentProfile)[i] :
                  EntriesOf(talentProfile)[i][f] = EntriesOf(userProfile)[i][f]

\* A job has ended after both profile updates were applied: two entries in
\* each table, the company name only in user_profiles.
C30_Witness ==
    /\ pc = "done" /\ profileWrites = <<"user_profiles", "talent_profiles">>
    /\ Len(EntriesOf(talentProfile)) = 2
    /\ EntriesOf(userProfile)[1].companyName = Str("Acme AG")
    /\ EntriesOf(talentProfile)[1].positionName = Str("Parttime Cashier")
    /\ EntriesOf(talentProfile)[1].positionType = Str("Part-time")

=============================================================================
